---- MODULE Spec2Model ----
(***************************************************************************)
(* Viewport-adaptive resampling (src/var/ViewportAdaptiveResampler.py)     *)
(* with the FSMR mesh-to-mesh resampler (src/fsmr/resample_fsmr.py) as a   *)
(* state machine.                                                          *)
(*                                                                         *)
(* Numbers.  The source computes with IEEE doubles and trigonometry; the   *)
(* model computes with integers:                                           *)
(*   - an angle is an integer number of units, pi being PiUnits units;     *)
(*   - a pixel coordinate c is carried doubled (c2 = 2*c), so that the     *)
(*     block centre (i + 0.5) * B - 0.5 is an integer;                     *)
(*   - a point of the unit sphere is the pair (theta, phi) of its          *)
(*     spherical angles (spherical_to_cartesian is one-to-one on them);    *)
(*   - the rotation that turns the block centre c onto the optical axis    *)
(*     (-1, 0, 0) is carried out in the tangent plane at c: a rotated      *)
(*     point is its pair of tangent-plane offsets (ty, tx) from the axis,  *)
(*     ty along the meridian and tx along the parallel (shortened by       *)
(*     sin(theta_c), with sin(t) taken as 4 t (pi - t) / pi^2), both       *)
(*     scaled by PiUnits^2; its incident angle arccos(-s_r[0]) is the      *)
(*     larger of |ty| and |tx|;                                            *)
(*   - tan(t) is t, so a perspective image point is focal_length times     *)
(*     the tangent-plane offsets.                                          *)
(* Every guard, comparison, selection, ordering and assignment of the      *)
(* source is kept as written.                                              *)
(*                                                                         *)
(* The mesh-to-mesh resampler is the callable the caller hands in.  It is  *)
(* resample_fsmr: the in-place shift of its two point arrays is modelled   *)
(* as written; the value it computes for a target point is kept as the     *)
(* uninterpreted term of its (shifted) arguments, so two results are equal *)
(* exactly when the arguments that produced them are.  A callable may      *)
(* raise: `raises` names the blocks on whose arguments it does.            *)
(***************************************************************************)
EXTENDS Integers, Sequences, FiniteSets, TLC

VARIABLES
    size_src,               \* self._size_src
    size_tar,               \* self._size_tar
    blocksize,              \* self._blocksize
    incident_angle_factor,  \* self._incident_angle_factor
    mesh_to_mesh_resampler, \* self._mesh_to_mesh_resampler: [shift, raises]
    s_src_o,                \* self._s_src_o: None or Some(pixel -> sphere point)
    s_tar_o,                \* self._s_tar_o: None or Some(pixel -> sphere point)
    pc,                     \* "new" | "invalid" | "ready" | "running"
    init_error,             \* what __init__ raised: None or Some(kind)
    image_src,              \* the caller's image of the running call: None or Some(image)
    image_in,               \* ghost: that image as it was when the call began
    progress,               \* the running call's progress argument
    i,                      \* resample's outer loop counter (block row)
    j,                      \* resample's inner loop counter (block column)
    pending,                \* ghost: the blocks of the running call not yet visited
    image_tar,              \* the running call's output buffer: pixel -> None (unwritten) or Some(value)
    written,                \* ghost: pixel -> the blocks that wrote it, in order
    t,                      \* the tqdm bar: None or Some([n, total, closed])
    mesh_calls,             \* ghost: the mesh resampler invocations of the running call
    history,                \* ghost: one record per finished resample call
    args,                   \* the arguments of a library function applied on its own: None or Some(arguments)
    result                  \* what that application returned or raised: None or Some(outcome)

vars == <<size_src, size_tar, blocksize, incident_angle_factor, mesh_to_mesh_resampler,
          s_src_o, s_tar_o, pc, init_error, image_src, image_in, progress, i, j, pending, image_tar,
          written, t, mesh_calls, history, args, result>>

config == <<size_src, size_tar, blocksize, incident_angle_factor, mesh_to_mesh_resampler>>

(***************************************************************************)
(* Bounds of the model.                                                    *)
(***************************************************************************)
MaxBlocksize == 2
MaxFactor == 3
MaxCalls == 2
MaxBlocks == 6
SrcSizes == {<<2, 4>>}
TarSizes == {<<2, 2>>, <<2, 4>>, <<3, 3>>, <<3, 4>>, <<4, 4>>, <<6, 4>>}

(***************************************************************************)
(* Values.                                                                 *)
(***************************************************************************)
None == <<>>
Some(v) == <<v>>
Get(o) == o[1]

Abs(n) == IF n < 0 THEN -n ELSE n
Max(a, b) == IF a >= b THEN a ELSE b
SetMax(S) == CHOOSE m \in S : \A n \in S : n <= m
SetMin(S) == CHOOSE m \in S : \A n \in S : m <= n

PiUnits == 24
HalfPi == (PiUnits \div 2) * PiUnits * PiUnits

Pixels(size) == (0 .. size[1] - 1) \X (0 .. size[2] - 1)

\* np.mgrid / reshape(-1) / boolean-mask order: row-major.
RowMajor(size) == [k \in 1 .. size[1] * size[2] |-> <<(k - 1) \div size[2], (k - 1) % size[2]>>]

(***************************************************************************)
(* Projections.                                                            *)
(***************************************************************************)
EquirectangularProjection(size) == [kind |-> "ERP", size |-> size]

projection_src == EquirectangularProjection(size_src)
projection_tar == EquirectangularProjection(size_tar)

\* EquirectangularProjection.to_sphere at the doubled coordinates (y2, x2):
\* theta = ((y + 0.5) / H) * pi, phi = -((x + 0.5) / W) * 2 * pi.
to_sphere(proj, y2, x2) ==
    [theta |-> ((y2 + 1) * PiUnits) \div (2 * proj.size[1]),
     phi   |-> -(((x2 + 1) * PiUnits) \div proj.size[2])]

\* EquirectangularProjection.focal_length: 1 / tan(pi / H), which with tan(t) = t
\* is H / pi; image-plane lengths are kept in units of 1 / PiUnits^3 pixel.
focal_length(proj) == proj.size[1]

\* to_sphere over np.mgrid[:H, :W]
SphereGrid(proj, size) == [p \in Pixels(size) |-> to_sphere(proj, 2 * p[1], 2 * p[2])]

\* A longitude difference brought into (-pi, pi].
Wrap(d) == ((d + PiUnits - 1) % (2 * PiUnits)) - (PiUnits - 1)

\* sin(theta) * PiUnits^2
SinScaled(theta) == 4 * theta * (PiUnits - theta)

\* np.tensordot(_rotation_matrix(c), s): s in the frame whose optical axis is c.
Rotate(c, s) ==
    [ty |-> (s.theta - c.theta) * PiUnits * PiUnits,
     tx |-> -(Wrap(s.phi - c.phi) * SinScaled(c.theta))]

\* np.arccos(-s_r[0])
IncidentAngle(s_r) == Max(Abs(s_r.ty), Abs(s_r.tx))

\* PerspectiveProjection(f, (0, 0)).from_sphere: (y, x, r < 0)
PerspectiveFromSphere(f, s_r) ==
    [y |-> f * s_r.ty, x |-> f * s_r.tx, vip |-> IncidentAngle(s_r) > HalfPi]

(***************************************************************************)
(* The mesh-to-mesh resampler.                                             *)
(***************************************************************************)
\* misc.get_resampler('fsmr'): shift=16
Shift == 16

\* One pixel of the image plane, in the unit of the image-plane lengths.
LengthUnit == PiUnits * PiUnits * PiUnits

\* mesh += shift on an [N, 2] array: every entry of every row.
ShiftMesh(mesh, shift) ==
    [n \in 1 .. Len(mesh) |-> <<mesh[n][1] + shift * LengthUnit, mesh[n][2] + shift * LengthUnit>>]

\* basis_functions_target_mesh.transpose().dot(coeffs) for one target point: the
\* uninterpreted term of what it is computed from (column 0 is x, column 1 is y).
FsmrValue(source_mesh, source_val, target_pt) ==
    [mesh |-> source_mesh, val |-> source_val, x |-> target_pt[1], y |-> target_pt[2]]

\* resample_fsmr: the two `+=` act on the caller's arrays, so the arrays as the
\* call leaves them are part of its result.
resample_fsmr(source_mesh, source_val, target_mesh, shift) ==
    LET sm == ShiftMesh(source_mesh, shift)
        tm == ShiftMesh(target_mesh, shift)
    IN  [source_mesh |-> sm,
         target_mesh |-> tm,
         target_val  |-> [m \in 1 .. Len(tm) |-> FsmrValue(sm, source_val, tm[m])]]

(***************************************************************************)
(* ViewportAdaptiveResampler                                               *)
(***************************************************************************)
\* Faulty variant: only the width checked
check_config_width_only == size_tar[2] % blocksize # 0

\* _check_config: TRUE when it raises
check_config_raises == size_tar[1] % blocksize # 0 \/ size_tar[2] % blocksize # 0

blocks_i == size_tar[1] \div blocksize
blocks_j == size_tar[2] \div blocksize
Blocks == (0 .. blocks_i - 1) \X (0 .. blocks_j - 1)

\* The slice k * B : (k + 1) * B
BlockSlice(k) == k * blocksize .. (k + 1) * blocksize - 1

\* s_blk_tar_o = self._s_tar_o[:, i*B:(i+1)*B, j*B:(j+1)*B]
BlockPixels(bi, bj) == BlockSlice(bi) \X BlockSlice(bj)

\* reshape(-1) of a block: its pixels in row-major order
BlockSeq(bi, bj) ==
    [k \in 1 .. blocksize * blocksize |->
        <<bi * blocksize + ((k - 1) \div blocksize), bj * blocksize + ((k - 1) % blocksize)>>]

\* Faulty variant: the column slice one short: j*B : (j+1)*B - 1
WriteRegionShort(bi, bj) == BlockSlice(bi) \X (bj * blocksize .. (bj + 1) * blocksize - 2)

\* the region image_tar[i*B:(i+1)*B, j*B:(j+1)*B] that resample assigns
WriteRegion(bi, bj) == BlockSlice(bi) \X BlockSlice(bj)

\* (y_tar_c, x_tar_c) = ((i + 0.5) * B, (j + 0.5) * B) - 0.5, doubled
BlockCenter2(bi, bj) == <<(2 * bi + 1) * blocksize - 1, (2 * bj + 1) * blocksize - 1>>

\* Faulty variant: the columns stacked as (y, x)
StackYX(pt) == <<pt.y, pt.x>>

\* np.stack((x, y), axis=1): one row of a point array
StackXY(pt) == <<pt.x, pt.y>>

\* Faulty variant: the source buffer rotated in place: every point in the frame of c
SrcBufferRotatedInPlace(S_src, c) ==
    [p \in DOMAIN S_src |->
        [theta |-> S_src[p].theta - c.theta + (PiUnits \div 2),
         phi   |-> Wrap(S_src[p].phi - c.phi) - PiUnits]]

\* Faulty variant: the target block's slice of the buffer rotated in place
TarBufferRotatedInPlace(S_tar, c, bi, bj) ==
    [p \in DOMAIN S_tar |->
        IF p \in BlockPixels(bi, bj)
        THEN [theta |-> S_tar[p].theta - c.theta + (PiUnits \div 2),
              phi   |-> Wrap(S_tar[p].phi - c.phi) - PiUnits]
        ELSE S_tar[p]]

\* What self._s_src_o and self._s_tar_o hold after _resample_block has rotated them
\* about the centre c: tensordot returns new arrays, the buffers are only read.
SrcBufferAfterBlock(S_src, c) == S_src
TarBufferAfterBlock(S_tar, c, bi, bj) == S_tar

\* What the caller's image holds after _resample_block: image_src[mask_src] is a
\* copy, and the resampler gets only the copy.
ImageAfterBlock(img) == img

\* max_theta = incident_angle_factor * np.max(np.arccos(-s_blk_tar_r[0]))
max_theta(s_blk_tar_r) ==
    incident_angle_factor * SetMax({IncidentAngle(s_blk_tar_r[p]) : p \in DOMAIN s_blk_tar_r})

\* Faulty variant: the comparison not strict
IncidentAngleTooLargeOrEqual(mt) == mt >= HalfPi

\* if max_theta > np.pi / 2: raise
IncidentAngleTooLarge(mt) == mt > HalfPi

\* mask_src = theta_src < max_theta
mask_src(theta_src, mt) == theta_src < mt

\* image_masked_src = image_src[mask_src]: the values at the masked pixels, in order
MaskedValues(img, masked) == [n \in 1 .. Len(masked) |-> img.data[masked[n]]]

NoCall == [block |-> <<0, 0>>, src_pts |-> <<>>, src_vals |-> <<>>, tgt_pts |-> <<>>,
           src_pts_after |-> <<>>, tgt_pts_after |-> <<>>, raised |-> FALSE]

\* _resample_block(i, j, image_src) on the buffers S_src, S_tar.
resample_block(bi, bj, img, S_src, S_tar) ==
    LET c == to_sphere(projection_tar, BlockCenter2(bi, bj)[1], BlockCenter2(bi, bj)[2])
        s_src_r == [p \in Pixels(size_src) |-> Rotate(c, S_src[p])]
        s_blk_tar_r == [p \in BlockPixels(bi, bj) |-> Rotate(c, S_tar[p])]
        mt == max_theta(s_blk_tar_r)
        masked == SelectSeq(RowMajor(size_src),
                            LAMBDA p : mask_src(IncidentAngle(s_src_r[p]), mt))
        f == focal_length(projection_src)
        p_src_p == [n \in 1 .. Len(masked) |->
                        StackXY(PerspectiveFromSphere(f, s_src_r[masked[n]]))]
        image_masked_src == MaskedValues(img, masked)
        p_blk_tar_p == [k \in 1 .. blocksize * blocksize |->
                        StackXY(PerspectiveFromSphere(f, s_blk_tar_r[BlockSeq(bi, bj)[k]]))]
        raised == <<bi, bj>> \in mesh_to_mesh_resampler.raises
        res == resample_fsmr(p_src_p, image_masked_src, p_blk_tar_p,
                             mesh_to_mesh_resampler.shift)
        call == [block |-> <<bi, bj>>, src_pts |-> p_src_p, src_vals |-> image_masked_src,
                 tgt_pts |-> p_blk_tar_p,
                 src_pts_after |-> IF raised THEN p_src_p ELSE res.source_mesh,
                 tgt_pts_after |-> IF raised THEN p_blk_tar_p ELSE res.target_mesh,
                 raised |-> raised]
        after == [s_src_o |-> SrcBufferAfterBlock(S_src, c),
                  s_tar_o |-> TarBufferAfterBlock(S_tar, c, bi, bj),
                  image_src |-> ImageAfterBlock(img)]
    IN  IF IncidentAngleTooLarge(mt)
        THEN [error |-> Some("IncidentAngleTooLarge"), invoked |-> FALSE, call |-> NoCall,
              block_tar |-> <<>>, s_src_o |-> after.s_src_o, s_tar_o |-> after.s_tar_o,
              image_src |-> after.image_src]
        ELSE IF raised
        THEN [error |-> Some("ResamplerError"), invoked |-> TRUE, call |-> call,
              block_tar |-> <<>>, s_src_o |-> after.s_src_o, s_tar_o |-> after.s_tar_o,
              image_src |-> after.image_src]
        ELSE [error |-> None, invoked |-> TRUE, call |-> call,
              \* val_blk_tar.reshape((B, B))
              block_tar |-> [q \in (0 .. blocksize - 1) \X (0 .. blocksize - 1) |->
                                res.target_val[q[1] * blocksize + q[2] + 1]],
              s_src_o |-> after.s_src_o, s_tar_o |-> after.s_tar_o,
              image_src |-> after.image_src]

\* Faulty variant: the assignment indented under `if progress:`
WriteBlockUnderProgress(img_tar, bi, bj, block_tar) ==
    [p \in DOMAIN img_tar |->
        IF progress /\ p \in WriteRegion(bi, bj)
        THEN Some(block_tar[<<p[1] - bi * blocksize, p[2] - bj * blocksize>>])
        ELSE img_tar[p]]

\* image_tar[i*B:(i+1)*B, j*B:(j+1)*B] = block_tar
WriteBlock(img_tar, bi, bj, block_tar) ==
    [p \in DOMAIN img_tar |->
        IF p \in WriteRegion(bi, bj)
        THEN Some(block_tar[<<p[1] - bi * blocksize, p[2] - bj * blocksize>>])
        ELSE img_tar[p]]

\* Faulty variant: the sizes compared instead of the shapes
shape_mismatch_size_only(img) == img.shape[1] * img.shape[2] # size_src[1] * size_src[2]

\* if image_src.shape != self._size_src: raise
shape_mismatch(img) == img.shape # size_src

(***************************************************************************)
(* Inputs.                                                                 *)
(***************************************************************************)
\* A caller's image: its shape and its samples.
ImageOf(shape, kind) ==
    [shape |-> shape,
     data  |-> [p \in Pixels(shape) |->
                   IF kind = 0 THEN p[1] * shape[2] + p[2] ELSE 100 - (p[1] * shape[2] + p[2])]]

\* Two images of the configured shape and one of another shape.
Images == {ImageOf(size_src, 0), ImageOf(size_src, 1), ImageOf(<<size_src[2], size_src[1]>>, 0)}

\* The callables handed in: resample_fsmr with a shift, raising on no block or on one.
Resamplers == [shift : {0, Shift}, raises : {{}, {<<0, 1>>}}]

Init ==
    /\ size_src \in SrcSizes
    /\ size_tar \in TarSizes
    /\ blocksize \in 1 .. MaxBlocksize
    /\ blocks_i * blocks_j <= MaxBlocks
    /\ incident_angle_factor \in 1 .. MaxFactor
    /\ mesh_to_mesh_resampler \in Resamplers
    /\ s_src_o = None
    /\ s_tar_o = None
    /\ pc = "new"
    /\ init_error = None
    /\ image_src = None
    /\ image_in = None
    /\ progress = FALSE
    /\ i = 0
    /\ j = 0
    /\ pending = {}
    /\ image_tar = <<>>
    /\ written = <<>>
    /\ t = None
    /\ mesh_calls = <<>>
    /\ history = <<>>
    /\ args = None
    /\ result = None

(***************************************************************************)
(* ViewportAdaptiveResampler.__init__                                      *)
(***************************************************************************)
Construct ==
    /\ pc = "new"
    /\ IF check_config_raises
       THEN /\ pc' = "invalid"
            /\ init_error' = Some("InvalidConfig")
            /\ UNCHANGED <<s_src_o, s_tar_o>>
       ELSE /\ pc' = "ready"
            /\ s_src_o' = Some(SphereGrid(projection_src, size_src))
            /\ s_tar_o' = Some(SphereGrid(projection_tar, size_tar))
            /\ UNCHANGED init_error
    /\ UNCHANGED <<args, result, config, image_src, image_in, progress, i, j, pending, image_tar, written, t,
                   mesh_calls, history>>

(***************************************************************************)
(* ViewportAdaptiveResampler.resample                                      *)
(***************************************************************************)
\* The end of a resample call: what the caller got, and the call's locals dropped.
EndCall(img, outcome, output, allocated, failed, calls, wr, bar) ==
    /\ history' = Append(history,
            [image_src |-> Get(image_in), image_after |-> img, progress |-> progress,
             outcome |-> outcome, output |-> output, allocated |-> allocated,
             failed |-> failed, calls |-> calls, written |-> wr, t |-> bar,
             config |-> config])
    /\ pc' = "ready"
    /\ image_src' = None
    /\ image_in' = None
    /\ progress' = FALSE
    /\ i' = 0
    /\ j' = 0
    /\ pending' = {}
    /\ image_tar' = <<>>
    /\ written' = <<>>
    /\ t' = None
    /\ mesh_calls' = <<>>

\* Faulty variant: the blocks computed so far handed back
OutputOnErrorPartial(img_tar) == Some(img_tar)

\* What a call that raises hands to its caller: the exception, and no image.
OutputOnError(img_tar) == None

\* resample up to the loop: the shape check, np.empty, tqdm(total=...).
Enter(img, prog) ==
    IF shape_mismatch(img)
    THEN /\ history' = Append(history,
                [image_src |-> img, image_after |-> img, progress |-> prog,
                 outcome |-> "DimensionMismatch", output |-> None, allocated |-> FALSE,
                 failed |-> None, calls |-> <<>>, written |-> <<>>, t |-> None,
                 config |-> config])
         /\ UNCHANGED <<args, result, config, s_src_o, s_tar_o, pc, init_error, image_src, image_in,
                        progress, i, j, pending, image_tar, written, t, mesh_calls>>
    ELSE /\ pc' = "running"
         /\ image_src' = Some(img)
         /\ image_in' = Some(img)
         /\ progress' = prog
         /\ i' = 0
         /\ j' = 0
         /\ pending' = Blocks
         /\ image_tar' = [p \in Pixels(size_tar) |-> None]
         /\ written' = [p \in Pixels(size_tar) |-> <<>>]
         /\ t' = IF prog THEN Some([n |-> 0, total |-> blocks_i * blocks_j, closed |-> FALSE])
                         ELSE None
         /\ mesh_calls' = <<>>
         /\ UNCHANGED <<args, result, config, s_src_o, s_tar_o, init_error, history>>

Resample ==
    /\ pc = "ready"
    /\ Len(history) < MaxCalls
    /\ \E img \in Images, prog \in BOOLEAN : Enter(img, prog)

\* One pass of the loop body for block (bi, bj); (ni, nj) are the loop counters after it.
VisitBlock(bi, bj, ni, nj) ==
    LET r == resample_block(bi, bj, Get(image_src), Get(s_src_o), Get(s_tar_o))
        calls == IF r.invoked THEN Append(mesh_calls, r.call) ELSE mesh_calls
    IN  /\ s_src_o' = Some(r.s_src_o)
        /\ s_tar_o' = Some(r.s_tar_o)
        /\ IF r.error # None
           THEN EndCall(r.image_src, Get(r.error), OutputOnError(image_tar), TRUE,
                        Some(<<bi, bj>>), calls, written, t)
           ELSE /\ image_tar' = WriteBlock(image_tar, bi, bj, r.block_tar)
                /\ image_src' = Some(r.image_src)
                /\ written' = [p \in Pixels(size_tar) |->
                        IF p \in WriteRegion(bi, bj)
                        THEN Append(written[p], <<bi, bj>>)
                        ELSE written[p]]
                /\ t' = IF progress THEN Some([Get(t) EXCEPT !.n = @ + 1]) ELSE t
                /\ mesh_calls' = calls
                /\ pending' = pending \ {<<bi, bj>>}
                /\ i' = ni
                /\ j' = nj
                /\ UNCHANGED <<pc, image_in, progress, history>>
        /\ UNCHANGED <<args, result, config, init_error>>

\* Faulty variant: the loops nested the other way round (j outer, i inner)
ResampleBlockStepColumnMajor ==
    /\ pc = "running"
    /\ i < blocks_i
    /\ j < blocks_j
    /\ IF i + 1 < blocks_i THEN VisitBlock(i, j, i + 1, j)
       ELSE IF j + 1 < blocks_j THEN VisitBlock(i, j, 0, j + 1)
       ELSE VisitBlock(i, j, blocks_i, 0)

\* for i in range(blocks_i): for j in range(blocks_j): ...
ResampleBlockStep ==
    /\ pc = "running"
    /\ i < blocks_i
    /\ IF j + 1 < blocks_j THEN VisitBlock(i, j, i, j + 1) ELSE VisitBlock(i, j, i + 1, 0)

\* The loop is over: t.close(), return image_tar.
Return ==
    /\ pc = "running"
    /\ i >= blocks_i
    /\ EndCall(Get(image_src), "ok", Some(image_tar), TRUE, None, mesh_calls, written,
               IF progress THEN Some([Get(t) EXCEPT !.closed = TRUE]) ELSE t)
    /\ UNCHANGED <<args, result, config, s_src_o, s_tar_o, init_error>>

Next == Construct \/ Resample \/ ResampleBlockStep \/ Return

\* The loop of resample as a function: the blocks k, k + 1, ... in row-major order,
\* from the output buffer and the instance buffers of st, stopping at the first
\* block that raises.
RECURSIVE RowMajorLoop(_, _)
RowMajorLoop(st, k) ==
    IF k >= blocks_i * blocks_j
    THEN st
    ELSE LET r == resample_block(k \div blocks_j, k % blocks_j, st.image_src,
                                 st.s_src_o, st.s_tar_o)
         IN  IF r.error # None
             THEN [st EXCEPT !.raised = TRUE]
             ELSE RowMajorLoop(
                    [image_tar |-> WriteBlock(st.image_tar, k \div blocks_j, k % blocks_j,
                                              r.block_tar),
                     image_src |-> r.image_src,
                     s_src_o |-> r.s_src_o,
                     s_tar_o |-> r.s_tar_o,
                     raised |-> FALSE],
                    k + 1)

\* What resample(img) hands back on a freshly constructed instance: None when it raises.
RowMajorOutput(img) ==
    LET st == RowMajorLoop(
                [image_tar |-> [p \in Pixels(size_tar) |-> None],
                 image_src |-> img,
                 s_src_o |-> SphereGrid(projection_src, size_src),
                 s_tar_o |-> SphereGrid(projection_tar, size_tar),
                 raised |-> FALSE],
                0)
    IN  IF st.raised THEN None ELSE Some(st.image_tar)

Spec == Init /\ [][Next]_vars

(***************************************************************************)
(* The blocks visited by workers in any order (spec section 5: an          *)
(* implementation may parallelize the block iteration): the same loop      *)
(* body, one block at a time, the next block any block not yet visited.    *)
(***************************************************************************)
MaxWorkerBlocks == 4

InitAnyOrder == Init /\ blocks_i * blocks_j <= MaxWorkerBlocks

ResampleOnce ==
    /\ pc = "ready"
    /\ history = <<>>
    /\ \E img \in Images, prog \in BOOLEAN : Enter(img, prog)

WorkerStep ==
    /\ pc = "running"
    /\ \E b \in pending : VisitBlock(b[1], b[2], i, j)

ReturnAnyOrder ==
    /\ pc = "running"
    /\ pending = {}
    /\ EndCall(Get(image_src), "ok", Some(image_tar), TRUE, None, mesh_calls, written,
               IF progress THEN Some([Get(t) EXCEPT !.closed = TRUE]) ELSE t)
    /\ UNCHANGED <<args, result, config, s_src_o, s_tar_o, init_error>>

NextAnyOrder == Construct \/ ResampleOnce \/ WorkerStep \/ ReturnAnyOrder

SpecAnyOrder == InitAnyOrder /\ [][NextAnyOrder]_vars

(***************************************************************************)
(* Properties.                                                             *)
(***************************************************************************)
Finished == {history[n] : n \in 1 .. Len(history)}

\* Position of a block in the row-major visiting order.
BlockIndex(b) == b[1] * blocks_j + b[2]

\* The blocks a finished call entered: all of them, or those up to the failing one.
Visited(h) ==
    IF h.outcome = "DimensionMismatch" THEN {}
    ELSE IF h.failed = None THEN Blocks
    ELSE {b \in Blocks : BlockIndex(b) <= BlockIndex(Get(h.failed))}

CallsFor(h, b) == {n \in 1 .. Len(h.calls) : h.calls[n].block = b}

\* The sphere point of the centre of block b, and the incident angle of a pixel's
\* sphere point to it, from the projections alone.
CentreOf(b) ==
    to_sphere(projection_tar, (2 * b[1] + 1) * blocksize - 1, (2 * b[2] + 1) * blocksize - 1)
AngleTo(b, proj, size, p) ==
    IncidentAngle(Rotate(CentreOf(b), to_sphere(proj, 2 * p[1], 2 * p[2])))
PixelsOfBlock(b) ==
    {p \in Pixels(size_tar) : p[1] \div blocksize = b[1] /\ p[2] \div blocksize = b[2]}
BlockMaxTheta(b) ==
    incident_angle_factor
        * SetMax({AngleTo(b, projection_tar, size_tar, p) : p \in PixelsOfBlock(b)})

\* C1: when resample returns an image, every pixel (y, x) of it has been written
\* exactly once, by block (y div B, x div B), and none is left unwritten.
C1_EveryPixelWrittenOnce ==
    \A h \in Finished : h.outcome = "ok" =>
        \A p \in Pixels(size_tar) :
            /\ h.written[p] = << <<p[1] \div blocksize, p[2] \div blocksize>> >>
            /\ Get(h.output)[p] # None

C1_Witness ==
    \E h \in Finished :
        h.outcome = "ok" /\ blocksize > 1 /\ blocks_i > 1 /\ blocks_j > 1

\* C2: whatever the order in which the blocks are visited, the image handed back
\* is the one the row-major loop computes (and the call raises when that loop does).
C2_OrderIndependent ==
    \A h \in Finished :
        h.image_src.shape = size_src => h.output = RowMajorOutput(h.image_src)

\* an image returned after the blocks were visited in another order than row-major
C2_Witness ==
    \E h \in Finished :
        /\ h.outcome = "ok"
        /\ Len(h.calls) = 4
        /\ BlockIndex(h.calls[1].block) > BlockIndex(h.calls[2].block)
        /\ BlockIndex(h.calls[3].block) > BlockIndex(h.calls[4].block)
        /\ Len(h.calls[1].src_pts) > 0

\* C3: __init__ raises the configuration error exactly when a target dimension is
\* no multiple of blocksize, and then nothing has been precomputed or resampled.
C3_ConfigChecked ==
    pc # "new" =>
        /\ pc = "invalid" <=> (size_tar[1] % blocksize # 0 \/ size_tar[2] % blocksize # 0)
        /\ pc = "invalid" =>
                /\ init_error = Some("InvalidConfig")
                /\ s_src_o = None /\ s_tar_o = None
                /\ history = <<>> /\ mesh_calls = <<>>
        /\ pc # "invalid" => init_error = None /\ s_src_o # None /\ s_tar_o # None

C3_Witness ==
    /\ pc = "invalid"
    /\ size_tar[1] % blocksize # 0
    /\ size_tar[2] % blocksize = 0

\* C4: a visited block whose max_theta exceeds pi/2 fails the call with the
\* incident-angle error and is not handed to the mesh resampler; a visited block
\* whose max_theta is at most pi/2 is handed to it.
C4_IncidentAngleChecked ==
    \A h \in Finished : \A b \in Visited(h) :
        /\ BlockMaxTheta(b) > HalfPi =>
                /\ h.outcome = "IncidentAngleTooLarge"
                /\ h.failed = Some(b)
                /\ CallsFor(h, b) = {}
        /\ BlockMaxTheta(b) <= HalfPi => Cardinality(CallsFor(h, b)) = 1

\* a call that resampled blocks within pi/2 and then met one beyond it
C4_Witness ==
    \E h \in Finished :
        /\ h.outcome = "IncidentAngleTooLarge"
        /\ Len(h.calls) > 0
        /\ BlockMaxTheta(Get(h.failed)) > HalfPi

\* C5: a call in which a block raised ends with that error and hands no image to
\* its caller; nothing is done after the failing block.
C5_ErrorsAreFatal ==
    \A h \in Finished :
        /\ h.outcome # "ok" => h.output = None
        /\ h.outcome \in {"IncidentAngleTooLarge", "ResamplerError"} =>
                /\ h.failed # None
                /\ \A n \in 1 .. Len(h.calls) :
                        BlockIndex(h.calls[n].block) <= BlockIndex(Get(h.failed))
                /\ Cardinality(CallsFor(h, Get(h.failed))) <= 1
        /\ h.outcome = "ok" => h.failed = None /\ h.output # None

\* an error raised after blocks had already been computed and written
C5_Witness ==
    \E h \in Finished :
        /\ h.outcome = "ResamplerError"
        /\ \E p \in DOMAIN h.written : h.written[p] # <<>>
        /\ h.output = None

\* C6: resample raises the dimension mismatch exactly when the image's shape is not
\* size_src, before the output is allocated and before any block or resampler call.
C6_ShapeChecked ==
    /\ pc = "running" => Get(image_in).shape = size_src
    /\ \A h \in Finished :
        /\ h.outcome = "DimensionMismatch" <=> h.image_src.shape # size_src
        /\ h.outcome = "DimensionMismatch" =>
                /\ ~h.allocated
                /\ h.calls = <<>>
                /\ h.written = <<>>
                /\ h.output = None

C6_Witness ==
    \E h \in Finished : h.outcome = "DimensionMismatch" /\ h.image_src.shape # size_src

\* C7: resample_fsmr leaves the caller's src_pts and tgt_pts as they were.
C7_InputsNotMutated ==
    \A h \in Finished : \A n \in 1 .. Len(h.calls) :
        ~h.calls[n].raised =>
            /\ h.calls[n].src_pts_after = h.calls[n].src_pts
            /\ h.calls[n].tgt_pts_after = h.calls[n].tgt_pts

\* C8: resample calls leave the configuration, the two sphere buffers and the
\* caller's image as they were, and a later call with the same image ends as the
\* earlier one did.
C8_Recallable ==
    /\ pc \in {"ready", "running"} =>
            /\ s_src_o = Some(SphereGrid(projection_src, size_src))
            /\ s_tar_o = Some(SphereGrid(projection_tar, size_tar))
    /\ pc = "running" => image_src = image_in
    /\ \A h \in Finished : h.image_after = h.image_src /\ h.config = config
    /\ \A m, n \in 1 .. Len(history) :
            (m < n /\ history[m].image_src = history[n].image_src) =>
                /\ history[n].outcome = history[m].outcome
                /\ history[n].output = history[m].output

\* two calls with the same image, each returning an image made through a
\* resampler that shifts its point arrays in place
C8_Witness ==
    /\ Len(history) >= 2
    /\ history[1].image_src = history[2].image_src
    /\ history[1].outcome = "ok"
    /\ mesh_to_mesh_resampler.shift # 0
    /\ Len(history[2].calls) > 1

\* The n-th pixel, in row-major order, of a set M of source pixels is p.
RankIn(M, p) ==
    1 + Cardinality({q \in M : q[1] * size_src[2] + q[2] < p[1] * size_src[2] + p[2]})

C9_CallAsSpecified(img, cl) ==
    LET b == cl.block
        f == focal_length(projection_src)
        srcpt(p) == PerspectiveFromSphere(f,
                        Rotate(CentreOf(b), to_sphere(projection_src, 2 * p[1], 2 * p[2])))
        tarpt(p) == PerspectiveFromSphere(f,
                        Rotate(CentreOf(b), to_sphere(projection_tar, 2 * p[1], 2 * p[2])))
        mt == BlockMaxTheta(b)
        M == {p \in Pixels(size_src) : AngleTo(b, projection_src, size_src, p) < mt}
    IN  /\ Len(cl.src_pts) = Cardinality(M)
        /\ Len(cl.src_vals) = Cardinality(M)
        /\ \A p \in M :
                /\ cl.src_pts[RankIn(M, p)][1] = srcpt(p).x
                /\ cl.src_pts[RankIn(M, p)][2] = srcpt(p).y
                /\ cl.src_vals[RankIn(M, p)] = img.data[p]
        /\ Len(cl.tgt_pts) = blocksize * blocksize
        /\ \A u, v \in 0 .. blocksize - 1 :
                LET p == <<b[1] * blocksize + u, b[2] * blocksize + v>>
                IN  /\ cl.tgt_pts[u * blocksize + v + 1][1] = tarpt(p).x
                    /\ cl.tgt_pts[u * blocksize + v + 1][2] = tarpt(p).y

\* C9: every mesh resampler call gets as src_pts / src_vals exactly the source
\* pixels whose incident angle is below max_theta, point n and value n of the same
\* pixel, and as tgt_pts the B*B block pixels in row-major order, columns (x, y).
C9_ResamplerArguments ==
    /\ \A h \in Finished : \A n \in 1 .. Len(h.calls) :
            C9_CallAsSpecified(h.image_src, h.calls[n])
    /\ \A n \in 1 .. Len(mesh_calls) : C9_CallAsSpecified(Get(image_in), mesh_calls[n])

\* a call with several source samples, some pixels masked out, and a block whose
\* points differ in x and in y
C9_Witness ==
    \E n \in 1 .. Len(mesh_calls) :
        /\ Len(mesh_calls[n].src_pts) >= 2
        /\ Len(mesh_calls[n].src_pts) < size_src[1] * size_src[2]
        /\ blocksize > 1
        /\ \E k \in 1 .. Len(mesh_calls[n].src_pts) :
                mesh_calls[n].src_pts[k][1] # mesh_calls[n].src_pts[k][2]

\* C10: two calls with the same image, one with progress and one without, invoke
\* the mesh resampler with the same arguments in the same order and end alike.
C10_ProgressObservational ==
    \A g, h \in Finished :
        (g.image_src = h.image_src /\ g.progress # h.progress) =>
            /\ g.calls = h.calls
            /\ g.outcome = h.outcome
            /\ g.output = h.output

C10_Witness ==
    \E g, h \in Finished :
        /\ g.image_src = h.image_src
        /\ g.progress /\ ~h.progress
        /\ g.outcome = "ok"
        /\ Len(g.calls) > 1
        /\ g.t = Some([n |-> blocks_i * blocks_j, total |-> blocks_i * blocks_j, closed |-> TRUE])
        /\ h.t = None


(***************************************************************************)
(* Library functions applied on their own.  cmp_size, the projections and  *)
(* the FSMR engine are functions of their arguments: `args` holds the      *)
(* arguments of one application and `result` what it returned or raised.   *)
(* No resampler object takes part.                                         *)
(***************************************************************************)
resampler_vars == <<config, s_src_o, s_tar_o, pc, init_error, image_src, image_in, progress,
                    i, j, pending, image_tar, written, t, mesh_calls, history>>

\* No ViewportAdaptiveResampler has been constructed.
NoResampler ==
    /\ size_src = <<2, 4>>
    /\ size_tar = <<2, 2>>
    /\ blocksize = 1
    /\ incident_angle_factor = 1
    /\ mesh_to_mesh_resampler = [shift |-> 0, raises |-> {}]
    /\ s_src_o = None
    /\ s_tar_o = None
    /\ pc = "new"
    /\ init_error = None
    /\ image_src = None
    /\ image_in = None
    /\ progress = FALSE
    /\ i = 0
    /\ j = 0
    /\ pending = {}
    /\ image_tar = <<>>
    /\ written = <<>>
    /\ t = None
    /\ mesh_calls = <<>>
    /\ history = <<>>

(***************************************************************************)
(* misc.cmp_size                                                           *)
(***************************************************************************)
MaxErp == 8
MaxCmpBlock == 4

\* Faulty variant: np.ceil in place of np.floor
CeilSqrtSixth(a) == CHOOSE v \in 0 .. a + 1 : 6 * (v - 1) * (v - 1) < a /\ a <= 6 * v * v

\* np.floor(np.sqrt(a / 6)) for an integer a >= 0: the largest v with v * v <= a / 6.
FloorSqrtSixth(a) == CHOOSE v \in 0 .. a : 6 * v * v <= a /\ a < 6 * (v + 1) * (v + 1)

\* Faulty variant: <= in place of <
block_residual_not_large(block_residual, block_size) == 2 * block_residual <= block_size

\* block_residual < block_size/2 (a true division)
block_residual_small(block_residual, block_size) == 2 * block_residual < block_size

\* Faulty variant: v rounded to the nearest multiple of block_size
cmp_size_nearest(erp_size, block_size) ==
    LET v == FloorSqrtSixth(erp_size[1] * erp_size[2])
        block_residual == v % block_size
        cubeface_res == IF 2 * block_residual <= block_size
                        THEN v - block_residual
                        ELSE v + (block_size - block_residual)
    IN  <<cubeface_res * 2, cubeface_res * 3>>

\* cmp_size(erp_size, block_size): v = np.floor(np.sqrt(H * W / 6)), then the rounding
cmp_size(erp_size, block_size) ==
    LET v == FloorSqrtSixth(erp_size[1] * erp_size[2])
        block_residual == v % block_size
        cubeface_res == IF block_residual_small(block_residual, block_size)
                        THEN v + (block_size - block_residual)
                        ELSE v - block_residual
    IN  <<cubeface_res * 2, cubeface_res * 3>>

\* The ERP sizes and block sizes cmp_size is applied to; the last is the documented example.
CmpSizeArgs ==
    [erp_size : (1 .. MaxErp) \X (1 .. MaxErp), block_size : 1 .. MaxCmpBlock]
        \cup {[erp_size |-> <<1024, 2048>>, block_size |-> 32]}

InitCmpSize ==
    /\ NoResampler
    /\ args \in {Some(a) : a \in CmpSizeArgs}
    /\ result = None

ApplyCmpSize ==
    /\ result = None
    /\ result' = Some(cmp_size(Get(args).erp_size, Get(args).block_size))
    /\ UNCHANGED <<args, resampler_vars>>

NextCmpSize == ApplyCmpSize

SpecCmpSize == InitCmpSize /\ [][NextCmpSize]_vars

\* C11: for every ERP size (H, W) of positive integers and every block size B > 0,
\* cmp_size((H, W), B) returns a pair (2F, 3F) with F % B = 0 and F >= B (F is never 0).
C11_FaceSizeAtLeastBlock ==
    result # None =>
        LET r == Get(result)
            B == Get(args).block_size
            F == r[1] \div 2
        IN  /\ r = <<2 * F, 3 * F>>
            /\ F % B = 0
            /\ F >= B

\* C12: cmp_size returns (2F, 3F) where, with v = floor(sqrt(H*W/6)), F is v + (B - v mod B)
\* when v mod B < B/2 and v - v mod B otherwise.
C12_RoundingRule ==
    result # None =>
        LET r == Get(result)
            B == Get(args).block_size
            HW == Get(args).erp_size[1] * Get(args).erp_size[2]
        IN  \E F \in 0 .. r[1], v \in 0 .. HW :
                /\ r = <<2 * F, 3 * F>>
                /\ 6 * v * v <= HW
                /\ HW < 6 * (v + 1) * (v + 1)
                /\ (2 * (v % B) < B => F = v + (B - (v % B)))
                /\ (2 * (v % B) >= B => F = v - (v % B))

\* A size whose v is rounded down to a positive face size, with v mod B exactly B/2.
C12_Witness ==
    /\ result # None
    /\ LET F == Get(result)[1] \div 2
           B == Get(args).block_size
           HW == Get(args).erp_size[1] * Get(args).erp_size[2]
       IN  /\ F > 0
           /\ 6 * (F + B \div 2) * (F + B \div 2) <= HW
           /\ HW < 6 * (F + B \div 2 + 1) * (F + B \div 2 + 1)
           /\ B % 2 = 0

IsExample == args = Some([erp_size |-> <<1024, 2048>>, block_size |-> 32])

\* C13 (as claimed): cmp_size((1024, 2048), 32) returns (1024, 1536), both multiples of 32.
C13_Returns1024x1536 ==
    (IsExample /\ result # None) =>
        /\ Get(result) = <<1024, 1536>>
        /\ Get(result)[1] % 32 = 0
        /\ Get(result)[2] % 32 = 0

\* C13 (amended): cmp_size((1024, 2048), 32) returns (1216, 1824), both multiples of 32.
C13_Returns1216x1824 ==
    (IsExample /\ result # None) =>
        /\ Get(result) = <<1216, 1824>>
        /\ Get(result)[1] % 32 = 0
        /\ Get(result)[2] % 32 = 0

C13_Witness == IsExample /\ result # None


(***************************************************************************)
(* Exact numbers for the projections.  The projections compute with        *)
(* doubles; their tests compare within 1e-6.  The model computes with      *)
(* rationals <<n, d>> in lowest terms, d > 0, so that equal means equal.   *)
(***************************************************************************)
RECURSIVE GCD(_, _)
GCD(a, b) == IF b = 0 THEN a ELSE GCD(b, a % b)

Rat(n, d) ==
    LET g == GCD(Abs(n), Abs(d))
        sgn == IF d < 0 THEN -1 ELSE 1
    IN  <<(sgn * n) \div g, (sgn * d) \div g>>

RatInt(n) == <<n, 1>>
\* The common factors are taken out before multiplying, to keep the numbers small.
RatAdd(p, q) ==
    LET g == GCD(p[2], q[2])
    IN  Rat(p[1] * (q[2] \div g) + q[1] * (p[2] \div g), (p[2] \div g) * q[2])

RatSub(p, q) == RatAdd(p, <<-q[1], q[2]>>)

RatMul(p, q) ==
    LET g1 == GCD(Abs(p[1]), q[2])
        g2 == GCD(Abs(q[1]), p[2])
    IN  Rat((p[1] \div g1) * (q[1] \div g2), (p[2] \div g2) * (q[2] \div g1))

RatDiv(p, q) == RatMul(p, Rat(q[2], q[1]))

RatLe(p, q) ==
    LET g == GCD(p[2], q[2])
    IN  p[1] * (q[2] \div g) <= q[1] * (p[2] \div g)

RatLt(p, q) ==
    LET g == GCD(p[2], q[2])
    IN  p[1] * (q[2] \div g) < q[1] * (p[2] \div g)
RatMin(p, q) == IF RatLe(p, q) THEN p ELSE q
RatMax(p, q) == IF RatLe(p, q) THEN q ELSE p

(***************************************************************************)
(* CubemapProjection.CoordMap and CubemapProjection.Region                 *)
(***************************************************************************)
Axes == <<"x", "y", "z">>

\* ('x', 'y', 'z').index(ax), counted from 1
ax_to_idx(ax) == CHOOSE k \in 1 .. 3 : Axes[k] = ax

\* CoordMap.__init__: raises on an axis that is none of 'x', 'y', 'z'.
CoordMapRaises(axis_3d) == \A k \in 1 .. 3 : Axes[k] # axis_3d

CoordMap(interval_2d, interval_3d, axis_3d) ==
    [interval_2d |-> interval_2d, interval_3d |-> interval_3d, axis_3d |-> axis_3d]

lerp(val, a1, b1, a2, b2) ==
    RatAdd(RatMul(RatSub(val, a1), RatDiv(RatSub(b2, a2), RatSub(b1, a1))), a2)

val3d_for_2d(map, val2d) ==
    lerp(val2d, map.interval_2d[1], map.interval_2d[2], map.interval_3d[1], map.interval_3d[2])

val2d_for_3d(map, val3d) ==
    lerp(val3d, map.interval_3d[1], map.interval_3d[2], map.interval_2d[1], map.interval_2d[2])

\* Faulty variant: the 3D intervals compared in place of the 3D axes
RegionRaisesOnSameInterval(x_map, y_map) ==
    x_map.interval_3d = y_map.interval_3d /\ x_map.interval_2d = y_map.interval_2d

\* Region.__init__: if x_map.axis_3d == y_map.axis_3d: raise
RegionRaises(x_map, y_map) == x_map.axis_3d = y_map.axis_3d

\* next(filter(lambda axis_3d: axis_3d not in (x_map.axis_3d, y_map.axis_3d), ('x', 'y', 'z')))
plane_axis_3d(x_map, y_map) ==
    Axes[CHOOSE k \in 1 .. 3 :
            /\ Axes[k] \notin {x_map.axis_3d, y_map.axis_3d}
            /\ \A m \in 1 .. k - 1 : Axes[m] \in {x_map.axis_3d, y_map.axis_3d}]

Region(x_map, y_map, plane_val_3d) ==
    [x_map |-> x_map, y_map |-> y_map,
     plane_axis_3d |-> plane_axis_3d(x_map, y_map),
     plane_val_3d |-> plane_val_3d]

\* What constructing the two CoordMaps and then the Region gives the caller.
NewRegion(x_axis, x_interval_2d, x_interval_3d, y_axis, y_interval_2d, y_interval_3d, plane_val_3d) ==
    IF CoordMapRaises(x_axis) \/ CoordMapRaises(y_axis)
    THEN [error |-> Some("Unknown 3d axis"), region |-> None]
    ELSE LET x_map == CoordMap(x_interval_2d, x_interval_3d, x_axis)
             y_map == CoordMap(y_interval_2d, y_interval_3d, y_axis)
         IN  IF RegionRaises(x_map, y_map)
             THEN [error |-> Some("2d coordinates x and y are mapped to same 3d axis"),
                   region |-> None]
             ELSE [error |-> None, region |-> Some(Region(x_map, y_map, plane_val_3d))]

\* within_region_mask(y, x): both intervals closed
within_region_mask(region, y, x) ==
    /\ RatLe(RatMin(region.y_map.interval_2d[1], region.y_map.interval_2d[2]), y)
    /\ RatLe(y, RatMax(region.y_map.interval_2d[1], region.y_map.interval_2d[2]))
    /\ RatLe(RatMin(region.x_map.interval_2d[1], region.x_map.interval_2d[2]), x)
    /\ RatLe(x, RatMax(region.x_map.interval_2d[1], region.x_map.interval_2d[2]))

\* Faulty variant: the sign of the plane value is not looked at
within_cubeface_mask_unsigned(region, v) ==
    LET plane_ax_idx == ax_to_idx(region.plane_axis_3d)
        other_0 == ax_to_idx(region.x_map.axis_3d)
        other_1 == ax_to_idx(region.y_map.axis_3d)
    IN  /\ Abs(v[plane_ax_idx]) > Abs(v[other_0])
        /\ Abs(v[plane_ax_idx]) > Abs(v[other_1])

\* within_cubeface_mask(xs, ys, zs) for the direction v = <<xs, ys, zs>>
within_cubeface_mask(region, v) ==
    LET plane_ax_idx == ax_to_idx(region.plane_axis_3d)
        other_0 == ax_to_idx(region.x_map.axis_3d)
        other_1 == ax_to_idx(region.y_map.axis_3d)
        mask == IF region.plane_val_3d > 0 THEN v[plane_ax_idx] > 0 ELSE v[plane_ax_idx] < 0
    IN  /\ mask
        /\ Abs(v[plane_ax_idx]) > Abs(v[other_0])
        /\ Abs(v[plane_ax_idx]) > Abs(v[other_1])


\* Faulty variant: the plane component set to 1 whatever the sign of plane_val_3d
to_3d_unit_plane(region, y, x) ==
    IF ~within_region_mask(region, y, x)
    THEN [error |-> Some("Not all requested y, x values lie within the region."),
          coords_3d |-> None]
    ELSE [error |-> None,
          coords_3d |-> Some([k \in 1 .. 3 |->
                IF k = ax_to_idx(region.plane_axis_3d) THEN RatInt(1)
                ELSE IF k = ax_to_idx(region.x_map.axis_3d) THEN val3d_for_2d(region.x_map, x)
                ELSE val3d_for_2d(region.y_map, y)])]

\* Region.to_3d(y, x): the point of the cube for a canvas point of the region.  The three
\* assignments to coords_3d are made in the source's order (y_map, then x_map, then plane).
to_3d(region, y, x) ==
    IF ~within_region_mask(region, y, x)
    THEN [error |-> Some("Not all requested y, x values lie within the region."),
          coords_3d |-> None]
    ELSE [error |-> None,
          coords_3d |-> Some([k \in 1 .. 3 |->
                IF k = ax_to_idx(region.plane_axis_3d) THEN RatInt(region.plane_val_3d)
                ELSE IF k = ax_to_idx(region.x_map.axis_3d) THEN val3d_for_2d(region.x_map, x)
                ELSE val3d_for_2d(region.y_map, y)])]

\* Region.to_2d(xs, ys, zs) for the direction v: the ray through v is cut with the face's
\* plane (r = plane_val_3d / component of the unit vector), then mapped by the CoordMaps.
to_2d(region, v) ==
    IF ~within_cubeface_mask(region, v)
    THEN [error |-> Some("Not all requested xs, ys, zs values lie within the cubeface."),
          coords_2d |-> None]
    ELSE LET plane == v[ax_to_idx(region.plane_axis_3d)]
             coords_3d == [k \in 1 .. 3 |-> Rat(v[k] * region.plane_val_3d, plane)]
         IN  [error |-> None,
              coords_2d |-> Some(<<
                    val2d_for_3d(region.y_map, coords_3d[ax_to_idx(region.y_map.axis_3d)]),
                    val2d_for_3d(region.x_map, coords_3d[ax_to_idx(region.x_map.axis_3d)])>>)]

(***************************************************************************)
(* CubemapProjection                                                       *)
(***************************************************************************)
Zero == RatInt(0)
One == RatInt(1)
Half == Rat(1, 2)
Third == Rat(1, 3)
TwoThirds == Rat(2, 3)
Up == <<RatInt(-1), RatInt(1)>>
Down == <<RatInt(1), RatInt(-1)>>

\* CubemapProjection.__init__ makes no check of size.
CubemapInitRaises(size) == FALSE

CubemapProjection(size) ==
    [size |-> size,
     top_region    |-> Region(CoordMap(<<Zero, Third>>, Up, "x"),
                              CoordMap(<<Half, One>>, Up, "y"), 1),
     left_region   |-> Region(CoordMap(<<Zero, Third>>, Down, "x"),
                              CoordMap(<<Zero, Half>>, Down, "z"), -1),
     front_region  |-> Region(CoordMap(<<Third, TwoThirds>>, Up, "y"),
                              CoordMap(<<Zero, Half>>, Down, "z"), -1),
     right_region  |-> Region(CoordMap(<<TwoThirds, One>>, Up, "x"),
                              CoordMap(<<Zero, Half>>, Down, "z"), 1),
     back_region   |-> Region(CoordMap(<<Third, TwoThirds>>, Down, "z"),
                              CoordMap(<<Half, One>>, Up, "y"), 1),
     bottom_region |-> Region(CoordMap(<<TwoThirds, One>>, Down, "x"),
                              CoordMap(<<Half, One>>, Up, "y"), -1)]

\* for region in (self.top_region, self.left_region, ...)
RegionNames == <<"top", "left", "front", "right", "back", "bottom">>

RegionsOf(proj) ==
    <<proj.top_region, proj.left_region, proj.front_region, proj.right_region,
      proj.back_region, proj.bottom_region>>

\* coords / np.linalg.norm(coords): the unit vector of a point c of rationals, carried as
\* the shortest integer vector of its direction.
Normalize(c) ==
    LET L == c[1][2] * c[2][2] * c[3][2]
        n == [k \in 1 .. 3 |-> c[k][1] * (L \div c[k][2])]
        g == GCD(GCD(Abs(n[1]), Abs(n[2])), Abs(n[3]))
    IN  [k \in 1 .. 3 |-> n[k] \div g]

\* CubemapProjection.to_sphere for pixel (y, x): None is (nan, nan, nan).  A later region
\* of the loop overwrites an earlier one.
cmp_to_sphere(proj, y, x) ==
    LET yn == Rat(2 * y + 1, 2 * proj.size[1])
        xn == Rat(2 * x + 1, 2 * proj.size[2])
        regions == RegionsOf(proj)
        M == {k \in 1 .. 6 : within_region_mask(regions[k], yn, xn)}
    IN  IF M = {} THEN None
        ELSE Some(Normalize(Get(to_3d(regions[SetMax(M)], yn, xn).coords_3d)))

\* Faulty variant: the first covering region of the loop is kept
cmp_to_sphere_first_region(proj, y, x) ==
    LET yn == RatDiv(RatAdd(y, Half), RatInt(proj.size[1]))
        xn == RatDiv(RatAdd(x, Half), RatInt(proj.size[2]))
        regions == RegionsOf(proj)
        M == {k \in 1 .. 6 : within_region_mask(regions[k], yn, xn)}
    IN  IF M = {} THEN None
        ELSE Some(Normalize(Get(to_3d(regions[SetMin(M)], yn, xn).coords_3d)))

\* CubemapProjection.to_sphere for a coordinate (y, x) of rationals, inside the image or
\* not: coords_3d starts as nan, each region of the loop in turn overwrites the points
\* its mask covers, and the points that are not nan are divided by their norm.
cmp_to_sphere_at(proj, y, x) ==
    LET yn == RatDiv(RatAdd(y, Half), RatInt(proj.size[1]))
        xn == RatDiv(RatAdd(x, Half), RatInt(proj.size[2]))
        regions == RegionsOf(proj)
        M == {k \in 1 .. 6 : within_region_mask(regions[k], yn, xn)}
    IN  IF M = {} THEN None
        ELSE Some(Normalize(Get(to_3d(regions[SetMax(M)], yn, xn).coords_3d)))

\* CubemapProjection.from_sphere for one point: None is (nan, nan).
cmp_from_sphere(proj, s) ==
    IF s = None THEN None
    ELSE LET regions == RegionsOf(proj)
             M == {k \in 1 .. 6 : within_cubeface_mask(regions[k], Get(s))}
         IN  IF M = {} THEN None
             ELSE LET c == Get(to_2d(regions[SetMax(M)], Get(s)).coords_2d)
                  IN  Some(<<RatSub(RatMul(c[1], RatInt(proj.size[1])), Half),
                             RatSub(RatMul(c[2], RatInt(proj.size[2])), Half)>>)

(***************************************************************************)
(* EquirectangularProjection, exactly.  Angles are rationals in units of   *)
(* pi.  A point of the sphere is the pair (theta, phi) that                *)
(* cartesian_to_spherical gives for it: 0 <= theta <= 1, -1 < phi <= 1.    *)
(***************************************************************************)
\* np.arctan2(y, x) of the point at longitude phi: phi brought into (-pi, pi]
arctan2_of(phi) ==
    IF RatLe(phi, RatInt(-1)) THEN RatAdd(phi, RatInt(2))
    ELSE IF RatLt(RatInt(1), phi) THEN RatSub(phi, RatInt(2))
    ELSE phi

erp_to_sphere(size, y, x) ==
    LET phi_s == Rat(-(2 * x + 1), size[2])
        theta_s == Rat(2 * y + 1, 2 * size[1])
    IN  [theta |-> theta_s, phi |-> arctan2_of(phi_s)]

erp_from_sphere(size, s) ==
    LET phi_s == IF RatLt(Zero, s.phi) THEN RatSub(s.phi, RatInt(2)) ELSE s.phi
    IN  <<RatSub(RatMul(s.theta, RatInt(size[1])), Half),
          RatSub(RatMul(RatDiv(RatSub(Zero, phi_s), RatInt(2)), RatInt(size[2])), Half)>>


(***************************************************************************)
(* The projections applied on their own.                                   *)
(***************************************************************************)
MaxFace == 2
MaxComponent == 2
GridSteps == 12

\* Canvas sizes handed to a projection: all up to (2 * MaxFace, 3 * MaxFace).
CanvasSizes == (1 .. 2 * MaxFace) \X (1 .. 3 * MaxFace)

IsCmpCanvas(size) == \E F \in 1 .. size[1] : size = <<2 * F, 3 * F>>

AxisNames == {"x", "y", "z", "w"}

\* Canvas points in normalized coordinates, on a grid of GridSteps steps per axis.
GridPoints == {Rat(n, GridSteps) : n \in 0 .. GridSteps}

\* Coordinates in steps of one half, from one pixel and a half before the image to one
\* pixel past an image of n pixels.
HalfSteps(n) == {Rat(k, 2) : k \in -3 .. 2 * n}

ProjectionArgs ==
    [fn : {"CubemapProjection"}, size : CanvasSizes]
    \cup [fn : {"Region"}, x_axis : AxisNames, y_axis : AxisNames, plane_val_3d : {-1, 1}]
    \cup [fn : {"within_cubeface_mask"},
          v : (-MaxComponent .. MaxComponent) \X (-MaxComponent .. MaxComponent)
                \X (-MaxComponent .. MaxComponent)]
    \cup {a \in [fn : {"to_sphere"}, projection : {"ERP", "CMP"}, size : CanvasSizes,
                 y : 0 .. 2 * MaxFace - 1, x : 0 .. 3 * MaxFace - 1] :
            a.y < a.size[1] /\ a.x < a.size[2]}
    \cup [fn : {"to_3d"}, region : 1 .. 6, y : GridPoints, x : GridPoints]
    \cup [fn : {"to_sphere_at"}, size : CanvasSizes, y : HalfSteps(2 * MaxFace),
          x : HalfSteps(3 * MaxFace)]

InitProjection ==
    /\ NoResampler
    /\ args \in {Some(a) : a \in ProjectionArgs}
    /\ result = None

Applies(fn) == result = None /\ Get(args).fn = fn

\* CubemapProjection(size)
ConstructCubemap ==
    /\ Applies("CubemapProjection")
    /\ result' = Some(IF CubemapInitRaises(Get(args).size)
                      THEN [error |-> Some("InvalidConfig"), projection |-> None]
                      ELSE [error |-> None,
                            projection |-> Some(CubemapProjection(Get(args).size))])
    /\ UNCHANGED <<args, resampler_vars>>

\* Region(CoordMap((0, 1/3), (-1, 1), x_axis), CoordMap((0.5, 1), (-1, 1), y_axis), plane_val_3d)
ConstructRegion ==
    /\ Applies("Region")
    /\ result' = Some(NewRegion(Get(args).x_axis, <<Zero, Third>>, Up,
                                Get(args).y_axis, <<Half, One>>, Up, Get(args).plane_val_3d))
    /\ UNCHANGED <<args, resampler_vars>>

\* region.within_cubeface_mask(xs, ys, zs) for each of the six regions of a CubemapProjection
CubefaceMasks ==
    /\ Applies("within_cubeface_mask")
    /\ result' = Some([masks |-> {k \in 1 .. 6 :
            within_cubeface_mask(RegionsOf(CubemapProjection(<<2, 3>>))[k], Get(args).v)}])
    /\ UNCHANGED <<args, resampler_vars>>

\* projection.to_sphere(y, x)
ToSphere ==
    /\ Applies("to_sphere")
    /\ result' = Some([s |->
            IF Get(args).projection = "ERP"
            THEN Some(erp_to_sphere(Get(args).size, Get(args).y, Get(args).x))
            ELSE cmp_to_sphere(CubemapProjection(Get(args).size), Get(args).y, Get(args).x)])
    /\ UNCHANGED <<args, resampler_vars>>

\* projection.from_sphere(xs, ys, zs) of the point to_sphere gave
FromSphere ==
    /\ result # None
    /\ Get(args).fn = "to_sphere"
    /\ DOMAIN Get(result) = {"s"}
    /\ result' = Some([s |-> Get(result).s,
                       p |-> IF Get(args).projection = "ERP"
                             THEN Some(erp_from_sphere(Get(args).size, Get(Get(result).s)))
                             ELSE cmp_from_sphere(CubemapProjection(Get(args).size),
                                                  Get(result).s)])
    /\ UNCHANGED <<args, resampler_vars>>

\* CubemapProjection(size).to_sphere(y, x) at a coordinate that need not be a pixel
ToSphereAt ==
    /\ Applies("to_sphere_at")
    /\ result' = Some([s |-> cmp_to_sphere_at(CubemapProjection(Get(args).size),
                                              Get(args).y, Get(args).x)])
    /\ UNCHANGED <<args, resampler_vars>>

\* region.to_3d(y, x) for one region of a CubemapProjection
RegionTo3d ==
    /\ Applies("to_3d")
    /\ result' = Some(to_3d(RegionsOf(CubemapProjection(<<2, 3>>))[Get(args).region],
                            Get(args).y, Get(args).x))
    /\ UNCHANGED <<args, resampler_vars>>

\* from_sphere's choice of region for the point to_3d gave, and that region's to_2d
RegionFromSphere ==
    /\ result # None
    /\ Get(args).fn = "to_3d"
    /\ DOMAIN Get(result) = {"error", "coords_3d"}
    /\ Get(result).error = None
    /\ LET v == Normalize(Get(Get(result).coords_3d))
           regions == RegionsOf(CubemapProjection(<<2, 3>>))
           M == {k \in 1 .. 6 : within_cubeface_mask(regions[k], v)}
       IN  result' = Some([coords_3d |-> Get(result).coords_3d,
                           selected |-> M,
                           coords_2d |-> IF M = {} THEN None
                                         ELSE to_2d(regions[SetMax(M)], v).coords_2d])
    /\ UNCHANGED <<args, resampler_vars>>

NextProjection ==
    \/ ConstructCubemap
    \/ ConstructRegion
    \/ CubefaceMasks
    \/ ToSphere
    \/ FromSphere
    \/ ToSphereAt
    \/ RegionTo3d
    \/ RegionFromSphere

SpecProjection == InitProjection /\ [][NextProjection]_vars

Returned(fn) == result # None /\ Get(args).fn = fn

\* C14: a CubemapProjection whose canvas size is not (2F, 3F) for a positive integer F is
\* rejected with an error, and no projection object is produced.
C14_CanvasShapeChecked ==
    (Returned("CubemapProjection") /\ ~IsCmpCanvas(Get(args).size)) =>
        /\ Get(result).error # None
        /\ Get(result).projection = None

\* C15: a Region whose x_map and y_map name the same 3D axis is rejected with an error; an
\* accepted Region's plane axis is the axis of {x, y, z} neither map uses, so its three axes
\* are pairwise distinct.
C15_RegionAxesDistinct ==
    Returned("Region") =>
        LET r == Get(result)
        IN  /\ Get(args).x_axis = Get(args).y_axis => r.error # None /\ r.region = None
            /\ r.error = None =>
                LET g == Get(r.region)
                IN  /\ g.x_map.axis_3d = Get(args).x_axis
                    /\ g.y_map.axis_3d = Get(args).y_axis
                    /\ {g.plane_axis_3d} = {"x", "y", "z"} \ {g.x_map.axis_3d, g.y_map.axis_3d}
                    /\ Cardinality({g.plane_axis_3d, g.x_map.axis_3d, g.y_map.axis_3d}) = 3

\* A rejected Region with two valid, equal axes.
C15_Witness ==
    /\ Returned("Region")
    /\ Get(args).x_axis = "y"
    /\ Get(args).y_axis = "y"
    /\ Get(result).error # None

\* The face a direction with a strictly largest component lies on: 0 when it has none.
FaceOf(v) ==
    LET S == {k \in 1 .. 3 : \A m \in 1 .. 3 : m # k => Abs(v[k]) > Abs(v[m])}
    IN  IF S = {} THEN 0 ELSE CHOOSE k \in S : TRUE

\* C16: for a direction whose largest absolute component is strictly larger than the other
\* two, exactly one of the six regions' within_cubeface_mask is true: the region whose plane
\* axis is that component and whose plane value has its sign; for (0, 0, 1) it is top.
C16_ExactlyOneFace ==
    (Returned("within_cubeface_mask") /\ FaceOf(Get(args).v) # 0) =>
        LET v == Get(args).v
            regions == RegionsOf(CubemapProjection(<<2, 3>>))
        IN  /\ Cardinality(Get(result).masks) = 1
            /\ \A k \in Get(result).masks :
                /\ regions[k].plane_axis_3d = Axes[FaceOf(v)]
                /\ regions[k].plane_val_3d * v[FaceOf(v)] > 0
            /\ v = <<0, 0, 1>> => RegionNames[CHOOSE k \in Get(result).masks : TRUE] = "top"

\* Straight up: only the top region matches.
C16_Witness ==
    /\ Returned("within_cubeface_mask")
    /\ Get(args).v = <<0, 0, 1>>
    /\ Get(result).masks = {1}


RoundTripDone == Returned("to_sphere") /\ DOMAIN Get(result) = {"s", "p"}

RoundTripExact == Get(result).p = Some(<<RatInt(Get(args).y), RatInt(Get(args).x)>>)

\* C19: for ERP and CMP and every integer pixel (y, x) inside the image,
\* from_sphere(to_sphere(y, x)) returns (y, x); for ERP this includes the columns where the
\* longitude wraps (phi > 0 is mapped to phi - 2*pi).
C19_RoundTrip == RoundTripDone => RoundTripExact

\* The part of C19 the code keeps: ERP of every size, and CMP on a (2F, 3F) canvas.
C19_RoundTripOnCmpCanvas ==
    (RoundTripDone /\ (Get(args).projection = "CMP" => IsCmpCanvas(Get(args).size))) =>
        RoundTripExact

\* An ERP pixel whose longitude from_sphere has to wrap.
C19_WrapReached ==
    /\ RoundTripDone
    /\ Get(args).projection = "ERP"
    /\ RatLt(Zero, Get(Get(result).s).phi)


RatAbs(p) == <<Abs(p[1]), p[2]>>

\* (y, x) lies strictly inside both 2D intervals of the region.
StrictlyInside(region, y, x) ==
    /\ RatLt(RatMin(region.y_map.interval_2d[1], region.y_map.interval_2d[2]), y)
    /\ RatLt(y, RatMax(region.y_map.interval_2d[1], region.y_map.interval_2d[2]))
    /\ RatLt(RatMin(region.x_map.interval_2d[1], region.x_map.interval_2d[2]), x)
    /\ RatLt(x, RatMax(region.x_map.interval_2d[1], region.x_map.interval_2d[2]))

ArgRegion == RegionsOf(CubemapProjection(<<2, 3>>))[Get(args).region]

\* C20: for each of the six regions and every canvas point strictly inside the region's 2D
\* interval, the cube point to_3d gives has the region's plane-axis component strictly
\* largest in absolute value, with the plane value's sign; from_sphere selects the same
\* region, and that region's to_2d result lies inside the region's own 2D interval.
C20_FaceConsistent ==
    (Returned("to_3d") /\ StrictlyInside(ArgRegion, Get(args).y, Get(args).x)) =>
        LET r == Get(result)
            c == Get(r.coords_3d)
            plane == ax_to_idx(ArgRegion.plane_axis_3d)
        IN  /\ "error" \in DOMAIN r => r.error = None
            /\ c[plane] = RatInt(ArgRegion.plane_val_3d)
            /\ \A k \in 1 .. 3 : k # plane => RatLt(RatAbs(c[k]), RatAbs(c[plane]))
            /\ "selected" \in DOMAIN r =>
                /\ r.selected = {Get(args).region}
                /\ r.coords_2d # None
                /\ within_region_mask(ArgRegion, Get(r.coords_2d)[1], Get(r.coords_2d)[2])

\* A point strictly inside a face with plane value -1, taken to the cube and back.
C20_Witness ==
    /\ Returned("to_3d")
    /\ StrictlyInside(ArgRegion, Get(args).y, Get(args).x)
    /\ ArgRegion.plane_val_3d = -1
    /\ "selected" \in DOMAIN Get(result)
    /\ Get(result).selected = {Get(args).region}

\* The normalized position ((y + 0.5) / H, (x + 0.5) / W) of the coordinate of the call.
NormalizedPosition ==
    <<RatDiv(RatAdd(Get(args).y, Half), RatInt(Get(args).size[1])),
      RatDiv(RatAdd(Get(args).x, Half), RatInt(Get(args).size[2]))>>

\* The closed 2D intervals of region k, as CubemapProjection.__init__ gives them, contain p.
Covers(k, p) ==
    LET region == RegionsOf(CubemapProjection(Get(args).size))[k]
        iy == region.y_map.interval_2d
        ix == region.x_map.interval_2d
    IN  /\ RatLe(RatMin(iy[1], iy[2]), p[1]) /\ RatLe(p[1], RatMax(iy[1], iy[2]))
        /\ RatLe(RatMin(ix[1], ix[2]), p[2]) /\ RatLe(p[2], RatMax(ix[1], ix[2]))

\* The point of the unit sphere under the cube point that region k has for p.
CubePointOf(k, p) ==
    LET region == RegionsOf(CubemapProjection(Get(args).size))[k]
        c == [a \in 1 .. 3 |->
                IF Axes[a] = region.x_map.axis_3d
                THEN lerp(p[2], region.x_map.interval_2d[1], region.x_map.interval_2d[2],
                          region.x_map.interval_3d[1], region.x_map.interval_3d[2])
                ELSE IF Axes[a] = region.y_map.axis_3d
                THEN lerp(p[1], region.y_map.interval_2d[1], region.y_map.interval_2d[2],
                          region.y_map.interval_3d[1], region.y_map.interval_3d[2])
                ELSE RatInt(region.plane_val_3d)]
    IN  Normalize(c)

\* C21: CMP to_sphere returns NaN for exactly those coordinates whose normalized position
\* ((y+0.5)/H, (x+0.5)/W) lies in none of the six regions' closed 2D intervals; every
\* other coordinate gets the normalized cube point of a covering region, the last one in
\* the order top, left, front, right, back, bottom when several closed intervals contain it.
C21_NanOutsideLastRegionInside ==
    Returned("to_sphere_at") =>
        LET p == NormalizedPosition
            covering == {k \in 1 .. 6 : Covers(k, p)}
        IN  /\ Get(result).s = None <=> covering = {}
            /\ covering # {} =>
                    Get(result).s = Some(CubePointOf(SetMax(covering), p))

\* A coordinate of a (2, 3) canvas on the seam y = 1/2, which two regions with different
\* cube points cover, answered.
C21_Witness ==
    /\ Returned("to_sphere_at")
    /\ Get(args).size = <<2, 3>>
    /\ LET p == NormalizedPosition
           covering == {k \in 1 .. 6 : Covers(k, p)}
       IN  /\ Cardinality(covering) > 1
           /\ CubePointOf(SetMin(covering), p) # CubePointOf(SetMax(covering), p)
           /\ Get(result).s # None

\* A coordinate outside the image, answered with NaN.
C21_NanReached ==
    /\ Returned("to_sphere_at")
    /\ Get(args).size = <<2, 3>>
    /\ Get(args).y = RatInt(-1)
    /\ Get(result).s = None


(***************************************************************************)
(* The FSMR engine (src/fsmr/fsmr.py, src/fsmr/resample_fsmr.py), exactly. *)
(* For transform lengths 1 and 2 and integer mesh positions every entry of *)
(* the DCT dictionary is a rational: a factor is a rational q times        *)
(* sqrt(2)^e, and the exponents of the factors of one entry add up to an   *)
(* even number.  Signal values, weights and coefficients are rationals.    *)
(* The doubles of the source round: two objectives that are equal as       *)
(* rationals may compare either way once computed.  An entry of obj is     *)
(* the pair <<value, up>> of its exact value and whether its computation   *)
(* rounded up (an exact zero never does); pairs compare by value, then up. *)
(***************************************************************************)
Surd(q, e) == [q |-> q, e |-> e]

SurdMul(a, b) == Surd(RatMul(a.q, b.q), a.e + b.e)

\* the rational a product of factors is: sqrt(2)^(2 m) = 2^m
SurdValue(a) ==
    IF a.e = 0 THEN a.q
    ELSE IF a.e = 2 THEN RatMul(a.q, RatInt(2))
    ELSE RatMul(a.q, RatInt(4))

\* Faulty variant: the weight table indexed by "frequency is not zero"
weight_index_of_nonzero(k) == IF k = 0 THEN 0 ELSE 1

\* (k == 0).astype(int)
weight_index(k) == IF k = 0 THEN 1 ELSE 0

\* weights[a, b]: weights[0, 0] = 1/K, weights[0, 1] = weights[1, 0] = sqrt(2)/K,
\* weights[1, 1] = 2/K
weights(a, b, transform_length) ==
    IF a = 0 /\ b = 0 THEN Surd(Rat(1, transform_length), 0)
    ELSE IF a = 1 /\ b = 1 THEN Surd(Rat(2, transform_length), 0)
    ELSE Surd(Rat(1, transform_length), 1)

\* np.cos((np.pi / K) * (pos - 0.5) * k) for an integer pos, K in {1, 2} and k < K
cos_dct(pos, k, transform_length) ==
    IF k = 0 THEN Surd(One, 0)
    ELSE IF (2 * pos - 1) % 8 \in {1, 7} THEN Surd(Half, 1)
    ELSE Surd(Rat(-1, 2), 1)

\* np.mgrid[:K, :K] flattened: K * K atoms for K > 0, none for K <= 0
NumAtoms(transform_length) == IF transform_length > 0 THEN transform_length * transform_length ELSE 0

\* dct_basis_dict(x, y, transform_length): atom idx (from 1) is (k, l) in row-major order
dct_basis_dict(x, y, transform_length) ==
    [idx \in 1 .. NumAtoms(transform_length) |->
        LET k == (idx - 1) \div transform_length
            l == (idx - 1) % transform_length
        IN  [n \in 1 .. Len(x) |->
                SurdValue(SurdMul(SurdMul(cos_dct(y[n], k, transform_length),
                                          cos_dct(x[n], l, transform_length)),
                                  weights(weight_index(k), weight_index(l), transform_length)))]]

\* np.power(sigma, np.sqrt(k*k + l*l)) for k, l < 2, to four decimals
dct_frequency_weighting(transform_length, sigma) ==
    [idx \in 1 .. NumAtoms(transform_length) |->
        LET k == (idx - 1) \div transform_length
            l == (idx - 1) % transform_length
        IN  IF k + l = 0 THEN One
            ELSE IF k + l = 1 THEN sigma
            ELSE IF sigma = One THEN One
            ELSE Rat(9025, 10000)]

RECURSIVE RatSum(_)
RatSum(seq) == IF Len(seq) = 0 THEN Zero ELSE RatAdd(seq[1], RatSum(Tail(seq)))

\* a.dot(b) for two vectors of one length
Dot(a, b) == RatSum([n \in 1 .. Len(a) |-> RatMul(a[n], b[n])])

\* numpy broadcasting of a vector to length n: a vector of length 1 is repeated
Broadcast(a, n) == IF Len(a) = 1 THEN [m \in 1 .. n |-> a[1]] ELSE a

\* a * b, elementwise with broadcasting, cannot be formed
BroadcastRaises(a, b) == Len(a) # Len(b) /\ Len(a) # 1 /\ Len(b) # 1

ObjLt(a, b) == RatLt(a[1], b[1]) \/ (a[1] = b[1] /\ a[2] < b[2])
ObjLe(a, b) == RatLt(a[1], b[1]) \/ (a[1] = b[1] /\ a[2] <= b[2])

\* Faulty variant: ties broken by the highest index
argmax_last(obj) ==
    CHOOSE idx \in 1 .. Len(obj) :
        /\ \A m \in 1 .. Len(obj) : ObjLe(obj[m], obj[idx])
        /\ \A m \in idx + 1 .. Len(obj) : ObjLt(obj[m], obj[idx])

\* np.argmax(obj): the first index of the largest entry
argmax(obj) ==
    CHOOSE idx \in 1 .. Len(obj) :
        /\ \A m \in 1 .. Len(obj) : ObjLe(obj[m], obj[idx])
        /\ \A m \in 1 .. idx - 1 : ObjLt(obj[m], obj[idx])

\* D = np.square(basis_dict).dot(spatial_weighting)
fsmr_D(basis_dict, spatial_weighting) ==
    [idx \in 1 .. Len(basis_dict) |->
        Dot([n \in 1 .. Len(basis_dict[idx]) |-> RatMul(basis_dict[idx][n], basis_dict[idx][n])],
            spatial_weighting)]

\* What stops a pass of fsmr's loop body: residual * spatial_weighting cannot be broadcast,
\* basis_dict.dot() gets a vector of another length, or np.argmax gets an empty obj.
fsmr_raises(residual, basis_dict, spatial_weighting) ==
    \/ BroadcastRaises(residual, spatial_weighting)
    \/ Max(Len(residual), Len(spatial_weighting)) # Len(spatial_weighting)
    \/ Len(basis_dict) = 0

\* projected_residual, and obj as exact values
fsmr_objective(residual, basis_dict, spatial_weighting, freq_weighting) ==
    LET N == Len(spatial_weighting)
        rw == [n \in 1 .. N |-> RatMul(Broadcast(residual, N)[n], spatial_weighting[n])]
        D == fsmr_D(basis_dict, spatial_weighting)
        projected_residual == [m \in 1 .. Len(basis_dict) |-> Dot(basis_dict[m], rw)]
    IN  [D |-> D,
         projected_residual |-> projected_residual,
         obj |-> [m \in 1 .. Len(basis_dict) |->
                    RatMul(freq_weighting[m],
                           RatDiv(RatMul(projected_residual[m], projected_residual[m]), D[m]))]]

\* obj as computed: rounding[m] = 1 when the computation of obj[m] rounds up
Rounded(obj, rounding) ==
    [m \in 1 .. Len(obj) |-> <<obj[m], IF obj[m] = Zero THEN 0 ELSE rounding[m]>>]

\* The roundings that can matter: of the entries that are largest as exact values.
Roundings(obj) ==
    {rounding \in [1 .. Len(obj) -> {0, 1}] :
        \A m \in 1 .. Len(obj) :
            (obj[m] = Zero \/ \E n \in 1 .. Len(obj) : RatLt(obj[m], obj[n])) => rounding[m] = 0}

\* Faulty variant: the residual loses the whole projection, the coefficient gains odc of it
fsmr_update_full_step(residual, coeffs, basis_dict, odc, idx, o) ==
    LET c == RatDiv(o.projected_residual[idx], o.D[idx])
        N == Len(basis_dict[idx])
    IN  [residual |-> [n \in 1 .. N |->
                RatSub(Broadcast(residual, N)[n], RatMul(basis_dict[idx][n], c))],
         coeffs |-> [coeffs EXCEPT ![idx] = RatAdd(@, RatMul(odc, c))]]

\* c = projected_residual[idx] / D[idx]; coeffs[idx] = coeffs[idx] + odc * c;
\* residual = residual - odc * basis_dict[idx] * c
fsmr_update(residual, coeffs, basis_dict, odc, idx, o) ==
    LET c == RatDiv(o.projected_residual[idx], o.D[idx])
        N == Len(basis_dict[idx])
    IN  [residual |-> [n \in 1 .. N |->
                RatSub(Broadcast(residual, N)[n], RatMul(RatMul(odc, basis_dict[idx][n]), c))],
         coeffs |-> [coeffs EXCEPT ![idx] = RatAdd(@, RatMul(odc, c))]]

Column(mesh, c) == [n \in 1 .. Len(mesh) |-> mesh[n][c]]

\* basis_functions_target_mesh.transpose().dot(coeffs)
synthesis(target_mesh, transform_length, coeffs) ==
    LET basis == dct_basis_dict(Column(target_mesh, 1), Column(target_mesh, 2), transform_length)
    IN  [m \in 1 .. Len(target_mesh) |->
            RatSum([idx \in 1 .. Len(basis) |-> RatMul(basis[idx][m], coeffs[idx])])]


(***************************************************************************)
(* resample_fsmr applied on its own, the matching pursuit one iteration at *)
(* a time.                                                                 *)
(***************************************************************************)
MaxValue == 2
MaxIterations == 2

\* mesh += shift on an [N, 2] array of plain numbers
ShiftPoints(mesh, shift) == [n \in 1 .. Len(mesh) |-> <<mesh[n][1] + shift, mesh[n][2] + shift>>]

\* The transform lengths handed in: the two the dictionary is exact for, 0 and a negative one.
TransformLengths == {-1, 0, 1, 2}

\* The source meshes are the prefixes of MeshPoints; columns are (x, y).
MeshPoints == <<<<0, 0>>, <<1, 2>>, <<2, 1>>>>

SourceMeshes == {SubSeq(MeshPoints, 1, n) : n \in 1 .. Len(MeshPoints)}

SourceVals == UNION {[1 .. n -> 0 .. MaxValue] : n \in 1 .. Len(MeshPoints)}

FsmrArgs ==
    [fn : {"resample_fsmr"}, source_mesh : SourceMeshes, source_val : SourceVals,
     target_mesh : {<<<<0, 0>>, <<1, 1>>>>}, transform_length : TransformLengths,
     odc : {Half, One}, sigma : {Rat(93, 100), One}, shift : {Shift},
     max_iterations : -1 .. MaxIterations]

InitFsmr ==
    /\ NoResampler
    /\ args \in {Some(a) : a \in FsmrArgs}
    /\ result = None

RaisedFsmr(error, r) ==
    [pc |-> "raised", error |-> error, i |-> r.i, residual |-> r.residual, coeffs |-> r.coeffs,
     source_mesh |-> r.source_mesh, target_mesh |-> r.target_mesh]

\* resample_fsmr up to fsmr's loop: the shifts, the dictionary, residual = np.copy(mesh_val),
\* coeffs = np.zeros(L).  1 / transform_length raises for transform_length = 0.  The
\* locals obj and idx of the loop body have no value yet.
CallResampleFsmr ==
    /\ result = None
    /\ LET a == Get(args)
           entry == [i |-> 0, obj |-> None, idx |-> None,
                     residual |-> [n \in 1 .. Len(a.source_val) |-> RatInt(a.source_val[n])],
                     coeffs |-> [idx \in 1 .. NumAtoms(a.transform_length) |-> Zero],
                     source_mesh |-> ShiftPoints(a.source_mesh, a.shift),
                     target_mesh |-> ShiftPoints(a.target_mesh, a.shift)]
       IN  result' = Some(IF a.transform_length = 0
                          THEN RaisedFsmr("ZeroDivisionError", entry)
                          ELSE [pc |-> "fsmr"] @@ entry)
    /\ UNCHANGED <<args, resampler_vars>>

\* for i in range(max_iterations): one pass of the body
FsmrIteration ==
    /\ result # None
    /\ Get(result).pc = "fsmr"
    /\ Get(result).i < Get(args).max_iterations
    /\ LET a == Get(args)
           r == Get(result)
           spatial_weighting == [n \in 1 .. Len(r.source_mesh) |-> One]
       IN  \E basis_dict \in {dct_basis_dict(Column(r.source_mesh, 1),
                                              Column(r.source_mesh, 2), a.transform_length)} :
           IF fsmr_raises(r.residual, basis_dict, spatial_weighting)
           THEN result' = Some(RaisedFsmr("ValueError", r))
           ELSE \E o \in {fsmr_objective(r.residual, basis_dict, spatial_weighting,
                                         dct_frequency_weighting(a.transform_length, a.sigma))} :
                \E rounding \in Roundings(o.obj) :
                \E idx \in {argmax(Rounded(o.obj, rounding))} :
                    LET u == fsmr_update(r.residual, r.coeffs, basis_dict, a.odc, idx, o)
                    IN  result' = Some([r EXCEPT !.i = @ + 1, !.residual = u.residual,
                                                 !.coeffs = u.coeffs,
                                                 !.obj = Some(Rounded(o.obj, rounding)),
                                                 !.idx = Some(idx)])
    /\ UNCHANGED <<args, resampler_vars>>

\* Faulty variant: the loop is also left as soon as the residual is zero everywhere
FsmrReturnOnZeroResidual ==
    /\ result # None
    /\ Get(result).pc = "fsmr"
    /\ \/ Get(result).i >= Get(args).max_iterations
       \/ \A n \in 1 .. Len(Get(result).residual) : Get(result).residual[n] = Zero
    /\ LET r == Get(result)
       IN  result' = Some([pc |-> "returned", i |-> r.i, residual |-> r.residual,
                           coeffs |-> r.coeffs, source_mesh |-> r.source_mesh,
                           target_mesh |-> r.target_mesh,
                           target_val |-> synthesis(r.target_mesh, Get(args).transform_length,
                                                    r.coeffs)])
    /\ UNCHANGED <<args, resampler_vars>>

\* the loop is over: return coeffs, and resample_fsmr returns the synthesis on the target mesh
FsmrReturn ==
    /\ result # None
    /\ Get(result).pc = "fsmr"
    /\ Get(result).i >= Get(args).max_iterations
    /\ LET r == Get(result)
       IN  result' = Some([pc |-> "returned", i |-> r.i, residual |-> r.residual,
                           coeffs |-> r.coeffs, source_mesh |-> r.source_mesh,
                           target_mesh |-> r.target_mesh,
                           target_val |-> synthesis(r.target_mesh, Get(args).transform_length,
                                                    r.coeffs)])
    /\ UNCHANGED <<args, resampler_vars>>

NextFsmr == CallResampleFsmr \/ FsmrIteration \/ FsmrReturn

SpecFsmr == InitFsmr /\ [][NextFsmr]_vars

FsmrReturned == result # None /\ Get(result).pc = "returned"

\* C17: resample_fsmr fails with an invalid-argument error, instead of returning values,
\* when the transform length K <= 0, when the iteration count T < 0, or when src_pts and
\* src_vals have different lengths.
C17_InvalidArgumentsRejected ==
    LET a == Get(args)
    IN  (\/ a.transform_length <= 0
         \/ a.max_iterations < 0
         \/ Len(a.source_mesh) # Len(a.source_val)) => ~FsmrReturned


\* The DC case: K > 0, as many values as points, all values equal, gamma = 1, one iteration.
DcCase ==
    LET a == Get(args)
    IN  /\ FsmrReturned
        /\ a.transform_length > 0
        /\ Len(a.source_val) = Len(a.source_mesh)
        /\ \A n \in 1 .. Len(a.source_val) : a.source_val[n] = a.source_val[1]
        /\ a.odc = One
        /\ a.max_iterations = 1

C18_DcWithAnySigma ==
    DcCase =>
        LET c == Get(result).coeffs
        IN  /\ c[1] = Rat(Get(args).source_val[1] * Get(args).transform_length, 2)
            /\ \A idx \in 2 .. Len(c) : c[idx] = Zero


\* The arguments fsmr's loop body can work with: a dictionary with atoms, and one value
\* per mesh point.
FsmrArgsFit ==
    /\ Get(args).transform_length > 0
    /\ Len(Get(args).source_val) = Len(Get(args).source_mesh)

\* C22: the matching-pursuit loop performs exactly T iterations for every T >= 0 and then
\* returns: it never runs beyond T, a call that returns has made T passes whatever the
\* residual was on the way (there is no convergence or early-exit test), and the only calls
\* that do not get that far are those whose arguments the loop body cannot work with.
C22_ExactlyTIterations ==
    (result # None /\ Get(args).max_iterations >= 0) =>
        /\ Get(result).i <= Get(args).max_iterations
        /\ Get(result).pc = "returned" => Get(result).i = Get(args).max_iterations
        /\ Get(result).pc = "raised" => ~FsmrArgsFit

\* A call with T = 2 on a signal that is zero everywhere: the residual is zero from the
\* start, and the call returns after two passes.
C22_Witness ==
    /\ FsmrReturned
    /\ FsmrArgsFit
    /\ Get(args).max_iterations = 2
    /\ Get(result).i = 2
    /\ \A n \in 1 .. Len(Get(args).source_val) : Get(args).source_val[n] = 0
    /\ \A n \in 1 .. Len(Get(result).residual) : Get(result).residual[n] = Zero


\* A pass of fsmr's loop body that ran to its end.
FsmrPass ==
    /\ result # None
    /\ result' # None
    /\ Get(result).pc = "fsmr"
    /\ Get(result').pc = "fsmr"
    /\ Get(result').i = Get(result).i + 1

\* k is the lowest index among those at which obj, as computed, is largest.
LowestLargest(obj, k) ==
    /\ \A m \in 1 .. Len(obj) : ObjLe(obj[m], obj[k])
    /\ \A m \in 1 .. k - 1 : ~ObjLe(obj[k], obj[m])

\* C23: in each iteration the selected atom k* is the lowest index among those maximising
\* obj[k] = f[k] * p[k]^2 / d[k] (obj as the pass computed it), and the iteration changes exactly one coefficient,
\* c[k*] += gamma * p[k*] / d[k*]; all other coefficients, the dictionary (the shifted mesh
\* and the transform length it is made of), the weights, the denominators d and the
\* caller's signal array are left unchanged.
C23_OneCoefficientOfFirstLargest ==
    [][FsmrPass =>
        LET a == Get(args)
            r == Get(result)
            after == Get(result')
            basis_dict == dct_basis_dict(Column(r.source_mesh, 1), Column(r.source_mesh, 2),
                                         a.transform_length)
            w == [n \in 1 .. Len(r.source_mesh) |-> One]
            o == fsmr_objective(r.residual, basis_dict, w,
                                dct_frequency_weighting(a.transform_length, a.sigma))
            k == Get(after.idx)
        IN  /\ \A m \in 1 .. Len(o.obj) : Get(after.obj)[m][1] = o.obj[m]
            /\ k \in 1 .. Len(o.obj)
            /\ LowestLargest(Get(after.obj), k)
            /\ after.coeffs[k] =
                  RatAdd(r.coeffs[k], RatMul(a.odc, RatDiv(o.projected_residual[k], o.D[k])))
            /\ \A m \in 1 .. Len(r.coeffs) : m # k => after.coeffs[m] = r.coeffs[m]
            /\ Len(after.coeffs) = Len(r.coeffs)
            /\ after.source_mesh = r.source_mesh
            /\ args' = args]_vars

\* One pass on a single mesh point with sigma = 1 and K = 2, where all four entries of
\* obj are equal as computed and not zero: the coefficient of the first atom has changed.
C23_Witness ==
    /\ result # None
    /\ Get(result).pc = "fsmr"
    /\ Get(result).i = 1
    /\ Get(args).transform_length = 2
    /\ Get(args).sigma = One
    /\ Get(args).source_val = <<1>>
    /\ Len(Get(args).source_mesh) = 1
    /\ Get(result).idx = Some(1)
    /\ \A m \in 1 .. 4 : Get(Get(result).obj)[m] = Get(Get(result).obj)[1]
    /\ Get(result).coeffs[1] # Zero
    /\ Cardinality({m \in 1 .. 4 : Get(result).coeffs[m] # Zero}) = 1


\* C24: after every iteration of the matching pursuit, and at return, the residual is the
\* input signal minus the current model, r[n] = s[n] - sum over k of c[k] * D[k, n] for
\* every mesh point n; initially r = s and c = 0.  (A single value stands for every mesh
\* point, as numpy broadcasts it; with a value count that fits neither way no iteration
\* is completed.)
C24_ResidualIsSignalMinusModel ==
    result # None =>
        LET a == Get(args)
            r == Get(result)
            N == Len(r.source_mesh)
            s == [n \in 1 .. Len(a.source_val) |-> RatInt(a.source_val[n])]
            D == dct_basis_dict(Column(r.source_mesh, 1), Column(r.source_mesh, 2),
                                a.transform_length)
            model(n) == RatSum([k \in 1 .. Len(r.coeffs) |-> RatMul(r.coeffs[k], D[k][n])])
        IN  /\ r.i = 0 =>
                /\ r.residual = s
                /\ \A k \in 1 .. Len(r.coeffs) : r.coeffs[k] = Zero
            /\ IF Len(s) \in {1, N}
               THEN \A n \in 1 .. N :
                        Broadcast(r.residual, N)[n] = RatSub(Broadcast(s, N)[n], model(n))
               ELSE r.i = 0

\* A call with odc = 1/2 that returned after two passes which chose two different atoms,
\* with part of the signal left in the residual.
C24_Witness ==
    /\ FsmrReturned
    /\ Get(args).odc = Half
    /\ Get(args).transform_length = 2
    /\ Len(Get(args).source_mesh) = 3
    /\ Len(Get(args).source_val) = 3
    /\ Get(result).i = 2
    /\ Cardinality({k \in 1 .. 4 : Get(result).coeffs[k] # Zero}) = 2
    /\ \E n \in 1 .. 3 : Get(result).residual[n] # Zero


\* The mesh resampler calls in calls are for the blocks 0, 1, 2, ... of the row-major
\* order (i outer, j inner; block (bi, bj) is number bi * (Wt / B) + bj), one call each.
CallsInRowMajorOrder(calls) ==
    \A n \in 1 .. Len(calls) :
        calls[n].block[1] * (size_tar[2] \div blocksize) + calls[n].block[2] = n - 1

\* C25: resample visits the blocks in row-major order (i outer, j inner) and calls the
\* mesh resampler exactly once per visited block; if block (i, j) fails the incident-angle
\* check, the mesh resampler has been called for exactly the i * (Wt / B) + j blocks
\* preceding it and is never called for (i, j) or any later block.
C25_RowMajorCallsUntilFailure ==
    /\ pc = "running" =>
            /\ CallsInRowMajorOrder(mesh_calls)
            /\ Len(mesh_calls) = i * (size_tar[2] \div blocksize) + j
    /\ \A h \in Finished :
            /\ CallsInRowMajorOrder(h.calls)
            /\ h.outcome = "ok" =>
                    Len(h.calls) = (size_tar[1] \div blocksize) * (size_tar[2] \div blocksize)
            /\ h.outcome = "IncidentAngleTooLarge" =>
                    Len(h.calls) = Get(h.failed)[1] * (size_tar[2] \div blocksize)
                                     + Get(h.failed)[2]
            /\ h.outcome = "ResamplerError" =>
                    Len(h.calls) = Get(h.failed)[1] * (size_tar[2] \div blocksize)
                                     + Get(h.failed)[2] + 1

\* A call that failed the incident-angle check in a block of a later row, after the
\* mesh resampler had been called for all the blocks before it.
C25_Witness ==
    \E h \in Finished :
        /\ h.outcome = "IncidentAngleTooLarge"
        /\ Get(h.failed)[1] > 0
        /\ size_tar[2] \div blocksize > 1
        /\ Len(h.calls) = Get(h.failed)[1] * (size_tar[2] \div blocksize) + Get(h.failed)[2]


(***************************************************************************)
(* ViewportAdaptiveResampler with a CubemapProjection as the target, on a  *)
(* canvas (2F, 3F): the configuration check, the sphere points of the      *)
(* target pixels, and for a block its slice of them and its centre.  The   *)
(* sphere points are exact (cmp_to_sphere_at).                             *)
(***************************************************************************)
MaxCubeFace == 4

InitCmpBlocks ==
    /\ size_src = <<2, 4>>
    /\ size_tar \in {<<2 * F, 3 * F>> : F \in 1 .. MaxCubeFace}
    /\ blocksize \in 1 .. 3 * MaxCubeFace
    /\ incident_angle_factor = 1
    /\ mesh_to_mesh_resampler = [shift |-> 0, raises |-> {}]
    /\ s_src_o = None
    /\ s_tar_o = None
    /\ pc = "new"
    /\ init_error = None
    /\ image_src = None
    /\ image_in = None
    /\ progress = FALSE
    /\ i = 0
    /\ j = 0
    /\ pending = {}
    /\ image_tar = <<>>
    /\ written = <<>>
    /\ t = None
    /\ mesh_calls = <<>>
    /\ history = <<>>
    /\ args = None
    /\ result = None

\* __init__: _check_config, then projection_tar.to_sphere on the mgrid of the target pixels
ConstructCmpTarget ==
    /\ pc = "new"
    /\ IF check_config_raises
       THEN /\ pc' = "invalid"
            /\ init_error' = Some("InvalidConfig")
            /\ UNCHANGED s_tar_o
       ELSE /\ pc' = "ready"
            /\ s_tar_o' = Some([p \in Pixels(size_tar) |->
                    cmp_to_sphere_at(CubemapProjection(size_tar), RatInt(p[1]), RatInt(p[2]))])
            /\ UNCHANGED init_error
    /\ UNCHANGED <<args, result, config, s_src_o, image_src, image_in, progress, i, j, pending,
                   image_tar, written, t, mesh_calls, history>>

\* Faulty variant: the last corner of the block taken for its centre
block_corner(k) == Rat(2 * (k + 1) * blocksize - 1, 2)

\* (k + 0.5) * self._blocksize - 0.5
block_centre(k) == Rat((2 * k + 1) * blocksize - 1, 2)

\* _resample_block(i, j, ...) up to the sphere point of the block centre: s_blk_tar_o, the
\* block's slice of _s_tar_o, and to_sphere of (y_tar_c, x_tar_c).
BlockGeometry ==
    /\ pc = "ready"
    /\ result = None
    /\ \E b \in Blocks :
            result' = Some([block |-> b,
                            s_blk_tar_o |-> [p \in BlockSlice(b[1]) \X BlockSlice(b[2]) |->
                                                Get(s_tar_o)[p]],
                            centre |-> <<block_centre(b[1]), block_centre(b[2])>>,
                            s_tar_c |-> cmp_to_sphere_at(CubemapProjection(size_tar),
                                                         block_centre(b[1]),
                                                         block_centre(b[2]))])
    /\ UNCHANGED <<args, resampler_vars>>

NextCmpBlocks == ConstructCmpTarget \/ BlockGeometry

SpecCmpBlocks == InitCmpBlocks /\ [][NextCmpBlocks]_vars

\* The cube face a direction points into: its largest component and that component's sign;
\* <<0, 0>> on an edge or a corner of the cube.
CubeFaceOf(v) == IF FaceOf(v) = 0 THEN <<0, 0>> ELSE <<FaceOf(v), IF v[FaceOf(v)] > 0 THEN 1 ELSE -1>>

\* C26: for a CMP target canvas (2F, 3F) that passes the divisibility check with blocksize
\* B, B divides F; hence every target block lies entirely inside one cube face (its rows
\* are rows of one face, its columns are columns of one face, and all its pixels and its
\* centre have sphere points in the same face), and no block centre
\* ((i + 0.5) * B - 0.5, (j + 0.5) * B - 0.5) falls on a face boundary (normalized y = 1/2
\* or x = 1/3, 2/3).
C26_BlocksInsideOneFace ==
    LET F == size_tar[1] \div 2
    IN  /\ pc = "ready" => F % blocksize = 0
        /\ result # None =>
            LET r == Get(result)
                yn == RatDiv(RatAdd(r.centre[1], Half), RatInt(size_tar[1]))
                xn == RatDiv(RatAdd(r.centre[2], Half), RatInt(size_tar[2]))
            IN  /\ \A p \in DOMAIN r.s_blk_tar_o :
                        /\ p[1] \div F = (r.block[1] * blocksize) \div F
                        /\ p[2] \div F = (r.block[2] * blocksize) \div F
                /\ yn # Half /\ xn # Third /\ xn # TwoThirds
                /\ r.s_tar_c # None
                /\ CubeFaceOf(Get(r.s_tar_c)) # <<0, 0>>
                /\ \A p \in DOMAIN r.s_blk_tar_o :
                        /\ r.s_blk_tar_o[p] # None
                        /\ CubeFaceOf(Get(r.s_blk_tar_o[p])) = CubeFaceOf(Get(r.s_tar_c))

\* A block of 2 x 2 pixels in a face of 4 x 4 pixels, next to the boundaries y = 1/2 and
\* x = 1/3.
C26_Witness ==
    /\ result # None
    /\ size_tar = <<8, 12>>
    /\ blocksize = 2
    /\ Get(result).block = <<1, 1>>
    /\ Get(result).s_tar_c # None


\* C27: cmp_size never picks the multiple of block strictly nearer to
\* v = floor(sqrt(H * W / 6)): for every input block / 2 <= |F - v| <= block (so the
\* neighbouring multiple on the other side of v is at least as near), and when v is
\* already a multiple of block the result is F = v + block rather than F = v.
C27_NeverTheNearerMultiple ==
    result # None =>
        LET B == Get(args).block_size
            HW == Get(args).erp_size[1] * Get(args).erp_size[2]
            F == Get(result)[1] \div 2
            v == CHOOSE u \in 0 .. HW : 6 * u * u <= HW /\ HW < 6 * (u + 1) * (u + 1)
        IN  /\ Get(result) = <<2 * F, 3 * F>>
            /\ B <= 2 * Abs(F - v)
            /\ Abs(F - v) <= B
            /\ \E M \in {F - B, F + B} : Abs(M - v) <= Abs(F - v)
            /\ v % B = 0 => F = v + B

\* An input whose v is a positive multiple of a block size above 1.
C27_Witness ==
    /\ result # None
    /\ Get(args).block_size > 1
    /\ \E u \in 1 .. MaxErp :
            /\ 6 * u * u <= Get(args).erp_size[1] * Get(args).erp_size[2]
            /\ Get(args).erp_size[1] * Get(args).erp_size[2] < 6 * (u + 1) * (u + 1)
            /\ u % Get(args).block_size = 0
            /\ Get(result) = <<2 * (u + Get(args).block_size), 3 * (u + Get(args).block_size)>>

====
